---- MODULE Spec2Model ----
(***************************************************************************)
(* Model of netopt-core (smart-tcp-manager): health scoring, anomaly       *)
(* detection, the policy store, the optimization decision engine, the      *)
(* per-platform aggregation of a connection snapshot into statistics, the  *)
(* validation and application of the system TCP configuration, the         *)
(* per-platform connection optimizer, the parsing of netstat output and    *)
(* the resolution of process names, the loading of a persisted policy      *)
(* store, and the background refresh of netopt-gui.                        *)
(*                                                                         *)
(* Strings are modelled as sequences of characters, so that substring      *)
(* matching is computed and not assumed.  Option<T> is modelled as a       *)
(* sequence: empty for None, of one element for Some.                      *)
(***************************************************************************)
EXTENDS Integers, Sequences, FiniteSets, TLC

VARIABLES
    \* ---- policy store and decision engine (policy.rs, optimizer.rs)
    policies,          \* PolicyManager.policies : process name -> AppPolicy
    default_policy,    \* PolicyManager.default_policy
    whitelist,         \* PolicyManager.whitelist (Vec<String>)
    blacklist,         \* PolicyManager.blacklist (Vec<String>)
    stats,             \* the ProcessTcpStats handed to the pure functions
    actions,           \* result of analyze_and_decide
    call,              \* the last call on the policy store: name, arg, ret
    \* ---- scoring and anomaly detection (monitor.rs)
    health_score,      \* result of calculate_health_score
    anomalies,         \* result of detect_anomalies
    \* ---- aggregation (platform/macos.rs, platform/windows.rs)
    platform,          \* "macos" | "windows"
    overflow_checks,   \* build profile: TRUE = overflow panics, FALSE = wraps
    pc,                \* position inside the running monitor call
    op,                \* the running monitor call and its argument
    connections,       \* local `connections` of the running call
    idx,               \* loop position in `for conn in &connections`
    by_state,          \* local `by_state`
    by_process_map,    \* local `by_process_map`
    config,            \* local `config` of get_system_stats
    wrapped,           \* a usize operation of the call wrapped around
    proc_stats,        \* local `stats` of get_process_stats / its result
    sys_stats,         \* result of get_system_stats
    top_processes,     \* result of get_top_processes, get_problematic_processes
    \* ---- system configuration (tcp_config.rs, platform/*.rs)
    os_params,         \* the TCP parameters of the OS: name -> value
    elevated,          \* the process runs as root / administrator
    mgr_call,          \* the last call on the config manager: name, arg, ret
    \* ---- connection control (platform/*.rs, ConnectionOptimizer)
    opt_call,          \* the last call on the optimizer: name, arg, ret
    closed,            \* connections the OS closed on request of a call
    \* ---- GUI integration (netopt-gui/src/main.rs)
    current_view,      \* NetOptApp.current_view
    app_stats,         \* NetOptApp.stats: the displayed snapshot
    last_refresh,      \* NetOptApp.last_refresh
    is_refreshing,     \* NetOptApp.is_refreshing
    auto_refresh,      \* NetOptApp.app_config.auto_refresh
    bg_channel,        \* messages sent on bg_sender and not yet received
    in_flight,         \* workers that have neither sent nor terminated
    now,               \* Instant::now()
    ui_pc,             \* position of the UI thread inside update()
    \* ---- process-name resolution (platform/windows.rs, platform/macos.rs)
    process_cache,     \* WindowsTcpMonitor.process_cache: pid -> name
    cache_lock,        \* the thread that holds the Mutex of process_cache
    thr_pc,            \* per thread: position in get_process_names_batch
    thr_pids,          \* per thread: the pids it asked for
    thr_result,        \* per thread: the names collected so far
    poll_call,         \* get_all_connections: raw output and returned value
    \* ---- persisted configuration (config.rs)
    load_call          \* deserialization: document and returned value

engine_vars  == <<policies, default_policy, whitelist, blacklist, actions,
                  call>>
score_vars   == <<health_score, anomalies>>
monitor_vars == <<platform, overflow_checks, pc, op, connections, idx,
                  by_state, by_process_map, config, wrapped, proc_stats,
                  sys_stats, top_processes>>
manager_vars == <<os_params, elevated, mgr_call>>
optimizer_vars == <<opt_call, closed>>
backend_vars == <<manager_vars, optimizer_vars>>
gui_vars == <<current_view, app_stats, last_refresh, is_refreshing,
              auto_refresh, bg_channel, in_flight, now, ui_pc>>
resolver_vars == <<process_cache, cache_lock, thr_pc, thr_pids, thr_result>>
tool_vars == <<resolver_vars, poll_call, load_call>>
other_vars == <<gui_vars, tool_vars>>
vars == <<engine_vars, stats, score_vars, monitor_vars, backend_vars,
          other_vars>>

\* Option<T>: None is the empty sequence, Some(x) the one-element sequence
None == <<>>
Some(x) == <<x>>
Unwrap(o) == o[1]

\* Result<T>
Ok(v) == [ok |-> TRUE, value |-> v, err |-> None]
Err(e) == [ok |-> FALSE, value |-> None, err |-> Some(e)]

Max(a, b) == IF a >= b THEN a ELSE b
Min(a, b) == IF a <= b THEN a ELSE b

(***************************************************************************)
(* lib.rs: TcpState, ProcessTcpStats                                       *)
(***************************************************************************)
TcpState == {"Listen", "SynSent", "SynReceived", "Established", "FinWait1",
             "FinWait2", "CloseWait", "Closing", "LastAck", "TimeWait",
             "Closed", "Unknown"}

\* ProcessTcpStats::default()
DefaultProcessTcpStats ==
    [pid |-> 0, process_name |-> <<>>, total_connections |-> 0,
     established |-> 0, time_wait |-> 0, close_wait |-> 0, listen |-> 0,
     other |-> 0, health_score |-> 0]

(***************************************************************************)
(* monitor.rs: calculate_health_score                                      *)
(***************************************************************************)
\* A slip: the second CLOSE_WAIT penalty forgotten (as in the doc comment).
calculate_health_score_noSecondCloseWait(s) ==
    LET s0 == 100
        s1 == IF s.time_wait > 100 THEN s0 - 20 ELSE s0
        s2 == IF s.time_wait > 500 THEN s1 - 30 ELSE s1
        s3 == IF s.close_wait > 50 THEN s2 - 25 ELSE s2
        s5 == IF s.total_connections > 1000 THEN s3 - 10 ELSE s3
        s6 == IF s.total_connections > 5000 THEN s5 - 15 ELSE s5
    IN  Min(Max(s6, 0), 100)

calculate_health_score(s) ==
    LET s0 == 100
        s1 == IF s.time_wait > 100 THEN s0 - 20 ELSE s0
        s2 == IF s.time_wait > 500 THEN s1 - 30 ELSE s1
        s3 == IF s.close_wait > 50 THEN s2 - 25 ELSE s2
        s4 == IF s.close_wait > 200 THEN s3 - 25 ELSE s3
        s5 == IF s.total_connections > 1000 THEN s4 - 10 ELSE s4
        s6 == IF s.total_connections > 5000 THEN s5 - 15 ELSE s5
    IN  Min(Max(s6, 0), 100)

(***************************************************************************)
(* monitor.rs: detect_anomalies                                            *)
(***************************************************************************)
AnomalyType == {"TooManyTimeWait", "TooManyCloseWait", "TooManyConnections",
                "PortExhaustion", "ConnectionLeak"}
Severity == {"Info", "Warning", "Critical"}

Anomaly(s, type, sev) ==
    [pid |-> s.pid, process_name |-> s.process_name,
     anomaly_type |-> type, severity |-> sev]

\* A slip: the CLOSE_WAIT test written with >= instead of >.
detect_anomalies_closeWaitGe(s) ==
    LET tw == IF s.time_wait > 500
                THEN <<Anomaly(s, "TooManyTimeWait", "Critical")>>
              ELSE IF s.time_wait > 100
                THEN <<Anomaly(s, "TooManyTimeWait", "Warning")>>
              ELSE <<>>
        cw == IF s.close_wait >= 50
                THEN <<Anomaly(s, "TooManyCloseWait", "Critical")>>
              ELSE <<>>
    IN  tw \o cw

detect_anomalies(s) ==
    LET tw == IF s.time_wait > 500
                THEN <<Anomaly(s, "TooManyTimeWait", "Critical")>>
              ELSE IF s.time_wait > 100
                THEN <<Anomaly(s, "TooManyTimeWait", "Warning")>>
              ELSE <<>>
        cw == IF s.close_wait > 50
                THEN <<Anomaly(s, "TooManyCloseWait", "Critical")>>
              ELSE <<>>
    IN  tw \o cw

(***************************************************************************)
(* policy.rs: AppPolicy, ThresholdAction, PolicyManager                    *)
(***************************************************************************)
ThresholdAction == {"Alert", "Optimize", "RestartProcess", "Ignore"}

\* AppPolicy::default()
DefaultAppPolicy ==
    [process_name |-> <<>>, auto_optimize |-> TRUE,
     time_wait_threshold |-> Some(300), close_wait_threshold |-> Some(30),
     max_connections |-> None, threshold_action |-> "Alert"]

\* A slip: the entry looked for at the start of the name only.
Contains_anchored(name, w) ==
    Len(w) <= Len(name) /\ SubSeq(name, 1, Len(w)) = w

\* str::contains: `w` occurs in `name` as a contiguous run of characters
Contains(name, w) ==
    \E i \in 0..(Len(name) - Len(w)) : SubSeq(name, i + 1, i + Len(w)) = w

\* The PolicyManager as one value (self)
PolicyManager ==
    [policies |-> policies, default_policy |-> default_policy,
     whitelist |-> whitelist, blacklist |-> blacklist]

\* A slip: the whitelist matched by equality instead of by substring.
is_whitelisted_exact(pm, process_name) ==
    \E k \in 1..Len(pm.whitelist) : process_name = pm.whitelist[k]

is_whitelisted(pm, process_name) ==
    \E k \in 1..Len(pm.whitelist) : Contains(process_name, pm.whitelist[k])

is_blacklisted(pm, process_name) ==
    \E k \in 1..Len(pm.blacklist) : Contains(process_name, pm.blacklist[k])

\* A slip: the stored policy ignored, the default always returned.
get_policy_alwaysDefault(pm, process_name) ==
    pm.default_policy

\* A slip: the key matched the way the lists are, by substring.
get_policy_substring(pm, process_name) ==
    IF \E k \in DOMAIN pm.policies :
          \E i \in 0..(Len(k) - Len(process_name)) :
              SubSeq(k, i + 1, i + Len(process_name)) = process_name
      THEN pm.policies[CHOOSE k \in DOMAIN pm.policies :
              \E i \in 0..(Len(k) - Len(process_name)) :
                  SubSeq(k, i + 1, i + Len(process_name)) = process_name]
      ELSE pm.default_policy

get_policy(pm, process_name) ==
    IF process_name \in DOMAIN pm.policies
      THEN pm.policies[process_name]
      ELSE pm.default_policy

(***************************************************************************)
(* optimizer.rs: OptimizationAction, analyze_and_decide                    *)
(***************************************************************************)
ActionType == {"CloseTimeWait", "CloseCloseWait", "ResetConnection",
               "GracefulShutdown", "None"}

continue_action(s) ==
    [pid |-> s.pid, process_name |-> s.process_name, action_type |-> "None",
     reason |-> <<"ignore">>, connections_affected |-> 0, success |-> TRUE,
     error_message |-> None]

\* A slip: the TIME_WAIT test written with >= instead of >.
TimeWaitActions_Ge(policy, s) ==
    IF policy.time_wait_threshold # None
       /\ s.time_wait >= Unwrap(policy.time_wait_threshold)
      THEN << CASE policy.threshold_action = "Optimize" ->
                     [pid |-> s.pid, process_name |-> s.process_name,
                      action_type |-> "CloseTimeWait",
                      reason |-> <<"TIME_WAIT", s.time_wait,
                                   Unwrap(policy.time_wait_threshold)>>,
                      connections_affected |->
                          s.time_wait - Unwrap(policy.time_wait_threshold),
                      success |-> FALSE, error_message |-> None]
                [] policy.threshold_action = "Alert" ->
                     [pid |-> s.pid, process_name |-> s.process_name,
                      action_type |-> "None",
                      reason |-> <<"alert", s.time_wait,
                                   Unwrap(policy.time_wait_threshold)>>,
                      connections_affected |-> 0,
                      success |-> TRUE, error_message |-> None]
                [] OTHER -> continue_action(s) >>
      ELSE <<>>

\* The TIME_WAIT block of analyze_and_decide (optimizer.rs 76-108)
TimeWaitActions(policy, s) ==
    IF policy.time_wait_threshold # None
       /\ s.time_wait > Unwrap(policy.time_wait_threshold)
      THEN << CASE policy.threshold_action = "Optimize" ->
                     [pid |-> s.pid, process_name |-> s.process_name,
                      action_type |-> "CloseTimeWait",
                      reason |-> <<"TIME_WAIT", s.time_wait,
                                   Unwrap(policy.time_wait_threshold)>>,
                      connections_affected |->
                          s.time_wait - Unwrap(policy.time_wait_threshold),
                      success |-> FALSE, error_message |-> None]
                [] policy.threshold_action = "Alert" ->
                     [pid |-> s.pid, process_name |-> s.process_name,
                      action_type |-> "None",
                      reason |-> <<"alert", s.time_wait,
                                   Unwrap(policy.time_wait_threshold)>>,
                      connections_affected |-> 0,
                      success |-> TRUE, error_message |-> None]
                [] OTHER -> continue_action(s) >>
      ELSE <<>>

\* A slip: CLOSE_WAIT made to follow threshold_action like TIME_WAIT.
CloseWaitActions_onlyOptimize(policy, s) ==
    IF policy.close_wait_threshold # None
       /\ policy.threshold_action = "Optimize"
       /\ s.close_wait > Unwrap(policy.close_wait_threshold)
      THEN << [pid |-> s.pid, process_name |-> s.process_name,
               action_type |-> "CloseCloseWait",
               reason |-> <<"CLOSE_WAIT", s.close_wait,
                            Unwrap(policy.close_wait_threshold)>>,
               connections_affected |-> s.close_wait,
               success |-> FALSE, error_message |-> None] >>
      ELSE <<>>

\* The CLOSE_WAIT block of analyze_and_decide (optimizer.rs 110-126)
CloseWaitActions(policy, s) ==
    IF policy.close_wait_threshold # None
       /\ s.close_wait > Unwrap(policy.close_wait_threshold)
      THEN << [pid |-> s.pid, process_name |-> s.process_name,
               action_type |-> "CloseCloseWait",
               reason |-> <<"CLOSE_WAIT", s.close_wait,
                            Unwrap(policy.close_wait_threshold)>>,
               connections_affected |-> s.close_wait,
               success |-> FALSE, error_message |-> None] >>
      ELSE <<>>

\* A slip: max_connections enforced as a third threshold.
analyze_and_decide_maxConnections(pm, s) ==
    IF is_whitelisted(pm, s.process_name) THEN <<>>
    ELSE LET policy == get_policy(pm, s.process_name)
         IN  IF ~policy.auto_optimize THEN <<>>
             ELSE TimeWaitActions(policy, s) \o CloseWaitActions(policy, s)
                  \o (IF policy.max_connections # None
                         /\ s.total_connections > Unwrap(policy.max_connections)
                        THEN <<continue_action(s)>> ELSE <<>>)

analyze_and_decide(pm, s) ==
    IF is_whitelisted(pm, s.process_name) THEN <<>>
    ELSE LET policy == get_policy(pm, s.process_name)
         IN  IF ~policy.auto_optimize THEN <<>>
             ELSE TimeWaitActions(policy, s) \o CloseWaitActions(policy, s)

(***************************************************************************)
(* platform/macos.rs, platform/windows.rs: the TcpMonitor implementations  *)
(* (get_process_stats and get_system_stats are the same code on both)      *)
(***************************************************************************)
\* TcpConnection, as far as aggregation reads it
Connection(pid, state, name) ==
    [pid |-> pid, state |-> state, process_name |-> name]

\* A slip: the catch-all arm `_ => other += 1` left out.
CountState_noOther(entry, state) ==
    CASE state = "Established" -> [entry EXCEPT !.established = @ + 1]
      [] state = "TimeWait"    -> [entry EXCEPT !.time_wait = @ + 1]
      [] state = "CloseWait"   -> [entry EXCEPT !.close_wait = @ + 1]
      [] state = "Listen"      -> [entry EXCEPT !.listen = @ + 1]
      [] OTHER                 -> entry

\* match conn.state { ... } of both loops
CountState(entry, state) ==
    CASE state = "Established" -> [entry EXCEPT !.established = @ + 1]
      [] state = "TimeWait"    -> [entry EXCEPT !.time_wait = @ + 1]
      [] state = "CloseWait"   -> [entry EXCEPT !.close_wait = @ + 1]
      [] state = "Listen"      -> [entry EXCEPT !.listen = @ + 1]
      [] OTHER                 -> [entry EXCEPT !.other = @ + 1]

\* A slip: a fresh entry made for every connection.
EntryFor_alwaysFresh(map, conn) ==
    [DefaultProcessTcpStats EXCEPT !.pid = conn.pid,
                                   !.process_name = conn.process_name]

\* by_process_map.entry(conn.pid).or_insert_with(...)
EntryFor(map, conn) ==
    IF conn.pid \in DOMAIN map
      THEN map[conn.pid]
      ELSE [DefaultProcessTcpStats EXCEPT !.pid = conn.pid,
                                          !.process_name = conn.process_name]

\* *by_state.entry(conn.state).or_insert(0) += 1
BumpState(map, state) ==
    [st \in DOMAIN map \cup {state} |->
        IF st = state
          THEN (IF st \in DOMAIN map THEN map[st] ELSE 0) + 1
          ELSE map[st]]

\* One iteration of the loop of get_system_stats
AccumulateProcess(map, conn) ==
    LET entry == EntryFor(map, conn)
        counted == CountState(
                     [entry EXCEPT !.total_connections = @ + 1], conn.state)
    IN  [p \in DOMAIN map \cup {conn.pid} |->
            IF p = conn.pid THEN counted ELSE map[p]]

\* A slip: the score left as it was when the entry was created.
WithHealthScore_stale(p) == p

\* p.health_score = calculate_health_score(p)
WithHealthScore(p) == [p EXCEPT !.health_score = calculate_health_score(p)]

\* Vec::sort_by(|a, b| b.total_connections.cmp(&a.total_connections)):
\* a stable sort, here by insertion
InsertByTotalDesc(sorted, x) ==
    LET k == Cardinality({j \in 1..Len(sorted) :
                 sorted[j].total_connections >= x.total_connections})
    IN  SubSeq(sorted, 1, k) \o <<x>> \o SubSeq(sorted, k + 1, Len(sorted))

\* A slip: the values left in the order into_values() gave them.
SortByTotalDesc_unsorted(s) == s

RECURSIVE SortByTotalDesc(_)
SortByTotalDesc(s) ==
    IF s = <<>> THEN <<>>
    ELSE InsertByTotalDesc(SortByTotalDesc(SubSeq(s, 1, Len(s) - 1)),
                           s[Len(s)])

\* into_iter().take(limit).collect()
Take(s, limit) == SubSeq(s, 1, Min(limit, Len(s)))

\* HashMap::into_values(): the values in an order of the map's choosing
ValueOrders(map) ==
    {[i \in 1..Cardinality(DOMAIN map) |-> map[f[i]]] :
       f \in {g \in [1..Cardinality(DOMAIN map) -> DOMAIN map] :
                 \A i, j \in 1..Cardinality(DOMAIN map) :
                     g[i] = g[j] => i = j}}

\* config.dynamic_port_start.unwrap_or(..), config.max_user_port.unwrap_or(..)
PortStart(cfg) ==
    IF cfg.dynamic_port_start # None THEN Unwrap(cfg.dynamic_port_start)
    ELSE IF platform = "macos" THEN 49152 ELSE 1025

PortEnd(cfg) ==
    IF cfg.max_user_port # None THEN Unwrap(cfg.max_user_port)
    ELSE IF platform = "macos" THEN 65535 ELSE 5000

\* A usize is n when ~wrap, and 2^W + n (n < 0, W the width of usize) when
\* wrap: the values a wrapped subtraction of two u32 can produce.
USize(n) == [wrap |-> FALSE, n |-> n]

\* port_end - port_start + 1 in wrapping arithmetic
TotalPorts(cfg) ==
    LET d == PortEnd(cfg) - PortStart(cfg)
    IN  IF d >= 0 THEN USize(d + 1)
        ELSE IF d = -1 THEN USize(0)
        ELSE [wrap |-> TRUE, n |-> d + 1]

\* Whether port_end - port_start + 1 overflows usize
TotalPortsOverflows(cfg) == PortEnd(cfg) < PortStart(cfg)

\* total_ports.saturating_sub(used_ports)
SaturatingSub(total, used) ==
    IF total.wrap THEN [wrap |-> TRUE, n |-> total.n - used]
    ELSE USize(IF total.n >= used THEN total.n - used ELSE 0)

(***************************************************************************)
(* Values the variables of a component hold while another one is studied   *)
(***************************************************************************)
EngineIdle ==
    /\ policies = <<>>
    /\ default_policy = DefaultAppPolicy
    /\ whitelist = <<>>
    /\ blacklist = <<>>
    /\ actions = None
    /\ call = None

ScoreIdle ==
    /\ health_score = None
    /\ anomalies = None

ManagerIdle ==
    /\ os_params = <<>>
    /\ elevated = FALSE
    /\ mgr_call = None

OptimizerIdle ==
    /\ opt_call = None
    /\ closed = {}

\* NetOptApp::new()
GuiIdle ==
    /\ current_view = "Dashboard"
    /\ app_stats = None
    /\ last_refresh = -100
    /\ is_refreshing = FALSE
    /\ auto_refresh = TRUE
    /\ bg_channel = <<>>
    /\ in_flight = 0
    /\ now = 0
    /\ ui_pc = "process_bg_messages"

\* The threads that share one monitor.
Threads == {"poll", "reader"}

\* WindowsTcpMonitor::new(), and no thread inside the monitor
ResolverIdle ==
    /\ process_cache = [p \in {} |-> <<>>]
    /\ cache_lock = None
    /\ thr_pc = [t \in Threads |-> "idle"]
    /\ thr_pids = [t \in Threads |-> {}]
    /\ thr_result = [t \in Threads |-> [p \in {} |-> <<>>]]

ToolIdle == ResolverIdle /\ poll_call = None /\ load_call = None

OtherIdle == GuiIdle /\ ToolIdle

BackendIdle == ManagerIdle /\ OptimizerIdle /\ OtherIdle

\* No monitor call is running
MonitorAtRest ==
    /\ pc = "idle"
    /\ op = None
    /\ connections = <<>>
    /\ idx = 0
    /\ by_state = <<>>
    /\ by_process_map = <<>>
    /\ config = None
    /\ wrapped = FALSE
    /\ proc_stats = None
    /\ sys_stats = None
    /\ top_processes = None

MonitorIdle ==
    /\ platform = "macos"
    /\ overflow_checks = FALSE
    /\ MonitorAtRest

(***************************************************************************)
(* SpecScore: calculate_health_score and detect_anomalies applied to       *)
(* statistics drawn around the fixed limits of the two functions           *)
(***************************************************************************)
Pids == {0, 10}
TimeWaitSamples == {0, 1, 99, 100, 101, 499, 500, 501, 600}
CloseWaitSamples == {0, 49, 50, 51, 199, 200, 201, 250}
TotalSamples == {0, 999, 1000, 1001, 4999, 5000, 5001, 6000}

ScoreInputs ==
    {[DefaultProcessTcpStats EXCEPT !.pid = p, !.process_name = n,
          !.time_wait = tw, !.close_wait = cw, !.total_connections = tot] :
       p \in Pids, n \in {<<>>, <<"a">>},
       tw \in TimeWaitSamples, cw \in CloseWaitSamples, tot \in TotalSamples}

InitScore ==
    /\ stats \in ScoreInputs
    /\ ScoreIdle
    /\ EngineIdle
    /\ MonitorIdle
    /\ BackendIdle

CallCalculateHealthScore ==
    /\ health_score = None
    /\ health_score' = Some(calculate_health_score(stats))
    /\ UNCHANGED <<engine_vars, stats, anomalies, monitor_vars, backend_vars,
                   other_vars>>

CallDetectAnomalies ==
    /\ anomalies = None
    /\ anomalies' = Some(detect_anomalies(stats))
    /\ UNCHANGED <<engine_vars, stats, health_score, monitor_vars,
                   backend_vars, other_vars>>

NextScore ==
    \/ CallCalculateHealthScore
    \/ CallDetectAnomalies

SpecScore == InitScore /\ [][NextScore]_vars

(***************************************************************************)
(* SpecEngine: the policy store is changed through its API and its public  *)
(* fields, and analyze_and_decide is applied to statistics                 *)
(***************************************************************************)
MaxCount == 2        \* time_wait and close_wait of the statistics: 0..MaxCount
MaxListLen == 1      \* entries of the whitelist

\* Names are sequences of characters; a policy is stored under PolicyKeys.
ProcessNames == {<<"a">>, <<"a", "b">>}
PolicyKeys == {<<"a", "b">>}
ListEntries == {<<"a">>, <<"b">>}
TimeWaitThresholds == {None, Some(0), Some(1)}
CloseWaitThresholds == {None, Some(1)}

AppPolicies(names) ==
    [process_name : names, auto_optimize : BOOLEAN,
     time_wait_threshold : TimeWaitThresholds,
     close_wait_threshold : CloseWaitThresholds,
     max_connections : {None},
     threshold_action : ThresholdAction]

EngineInputs ==
    {[DefaultProcessTcpStats EXCEPT !.pid = 10, !.process_name = n,
          !.time_wait = tw, !.close_wait = cw,
          !.total_connections = tw + cw] :
       n \in ProcessNames, tw \in 0..MaxCount, cw \in 0..MaxCount}

\* PolicyManager::new()
InitEngine ==
    /\ policies = <<>>
    /\ default_policy = DefaultAppPolicy
    /\ whitelist = <<>>
    /\ blacklist = <<>>
    /\ actions = None
    /\ call = None
    /\ stats = DefaultProcessTcpStats
    /\ ScoreIdle
    /\ MonitorIdle
    /\ BackendIdle

\* A slip: an update merged into the stored policy, unset thresholds of
\* the new policy taken from the old one.
set_policy_merge(policy) ==
    /\ actions = None
    /\ call = None
    /\ policies' = [n \in DOMAIN policies \cup {policy.process_name} |->
          IF n # policy.process_name THEN policies[n]
          ELSE IF n \in DOMAIN policies
                  /\ policy.time_wait_threshold = None
            THEN [policy EXCEPT !.time_wait_threshold =
                                    policies[n].time_wait_threshold]
            ELSE policy]
    /\ call' = Some([name |-> "set_policy", arg |-> policy, ret |-> None])
    /\ UNCHANGED <<default_policy, whitelist, blacklist, actions, stats,
                   score_vars, monitor_vars, backend_vars, other_vars>>

\* self.policies.insert(policy.process_name.clone(), policy)
set_policy(policy) ==
    /\ actions = None
    /\ call = None
    /\ policies' = [n \in DOMAIN policies \cup {policy.process_name} |->
                      IF n = policy.process_name THEN policy ELSE policies[n]]
    /\ call' = Some([name |-> "set_policy", arg |-> policy, ret |-> None])
    /\ UNCHANGED <<default_policy, whitelist, blacklist, actions, stats,
                   score_vars, monitor_vars, backend_vars, other_vars>>

\* self.policies.remove(process_name): the removed policy or None
remove_policy(process_name) ==
    /\ actions = None
    /\ call = None
    /\ policies' = [n \in DOMAIN policies \ {process_name} |-> policies[n]]
    /\ call' = Some([name |-> "remove_policy", arg |-> process_name,
                     ret |-> IF process_name \in DOMAIN policies
                               THEN Some(policies[process_name])
                               ELSE None])
    /\ UNCHANGED <<default_policy, whitelist, blacklist, actions, stats,
                   score_vars, monitor_vars, backend_vars, other_vars>>

\* get_policy(process_name), the policy returned by reference
CallGetPolicy(process_name) ==
    /\ actions = None
    /\ call = None
    /\ call' = Some([name |-> "get_policy", arg |-> process_name,
                     ret |-> get_policy(PolicyManager, process_name)])
    /\ UNCHANGED <<policies, default_policy, whitelist, blacklist, actions,
                   stats, score_vars, monitor_vars, backend_vars, other_vars>>

CallIsWhitelisted(process_name) ==
    /\ actions = None
    /\ call = None
    /\ call' = Some([name |-> "is_whitelisted", arg |-> process_name,
                     ret |-> is_whitelisted(PolicyManager, process_name)])
    /\ UNCHANGED <<policies, default_policy, whitelist, blacklist, actions,
                   stats, score_vars, monitor_vars, backend_vars, other_vars>>

CallIsBlacklisted(process_name) ==
    /\ actions = None
    /\ call = None
    /\ call' = Some([name |-> "is_blacklisted", arg |-> process_name,
                     ret |-> is_blacklisted(PolicyManager, process_name)])
    /\ UNCHANGED <<policies, default_policy, whitelist, blacklist, actions,
                   stats, score_vars, monitor_vars, backend_vars, other_vars>>

\* `pub default_policy`: assigned by the owner of the store
SetDefaultPolicy(policy) ==
    /\ actions = None
    /\ call = None
    /\ default_policy' = policy
    /\ UNCHANGED <<policies, whitelist, blacklist, actions, call, stats,
                   score_vars, monitor_vars, backend_vars, other_vars>>

\* `pub whitelist`: entries pushed by the owner of the store
PushWhitelist(entry) ==
    /\ actions = None
    /\ call = None
    /\ Len(whitelist) < MaxListLen
    /\ whitelist' = Append(whitelist, entry)
    /\ UNCHANGED <<policies, default_policy, blacklist, actions, call, stats,
                   score_vars, monitor_vars, backend_vars, other_vars>>

\* `pub blacklist`: entries pushed by the owner of the store
PushBlacklist(entry) ==
    /\ actions = None
    /\ call = None
    /\ Len(blacklist) < MaxListLen
    /\ blacklist' = Append(blacklist, entry)
    /\ UNCHANGED <<policies, default_policy, whitelist, actions, call, stats,
                   score_vars, monitor_vars, backend_vars, other_vars>>

CallAnalyzeAndDecide(s) ==
    /\ actions = None
    /\ call = None
    /\ stats' = s
    /\ actions' = Some(analyze_and_decide(PolicyManager, s))
    /\ UNCHANGED <<policies, default_policy, whitelist, blacklist, call,
                   score_vars, monitor_vars, backend_vars, other_vars>>

\* The caller is done with what the last call returned
DropActions ==
    /\ actions # None \/ call # None
    /\ actions' = None
    /\ call' = None
    /\ stats' = DefaultProcessTcpStats
    /\ UNCHANGED <<policies, default_policy, whitelist, blacklist,
                   score_vars, monitor_vars, backend_vars, other_vars>>

NextEngine ==
    \/ \E policy \in AppPolicies(PolicyKeys) : set_policy(policy)
    \/ \E n \in PolicyKeys : remove_policy(n)
    \/ \E policy \in AppPolicies({<<>>}) : SetDefaultPolicy(policy)
    \/ \E entry \in ListEntries : PushWhitelist(entry)
    \/ \E s \in EngineInputs : CallAnalyzeAndDecide(s)
    \/ DropActions

SpecEngine == InitEngine /\ [][NextEngine]_vars

(***************************************************************************)
(* SpecStore: the policy store alone, two keys of which one is contained   *)
(* in the other, names and list entries that differ in case and position   *)
(***************************************************************************)
StoreKeys == {<<"a">>, <<"a", "b">>}
StoreNames == {<<>>, <<"a">>, <<"A">>, <<"a", "b">>, <<"b", "a">>,
               <<"b", "a", "b">>}
StoreEntries == {<<>>, <<"a">>, <<"a", "b">>}

StorePolicies(names) ==
    [process_name : names, auto_optimize : {TRUE},
     time_wait_threshold : {None, Some(1)},
     close_wait_threshold : {Some(30)},
     max_connections : {None},
     threshold_action : {"Alert", "Optimize"}]

NextStore ==
    \/ \E policy \in StorePolicies(StoreKeys) : set_policy(policy)
    \/ \E n \in StoreNames : remove_policy(n)
    \/ \E n \in StoreNames : CallGetPolicy(n)
    \/ \E n \in StoreNames : CallIsWhitelisted(n)
    \/ \E n \in StoreNames : CallIsBlacklisted(n)
    \/ \E policy \in StorePolicies({<<>>}) : SetDefaultPolicy(policy)
    \/ \E entry \in StoreEntries : PushWhitelist(entry)
    \/ \E entry \in StoreEntries : PushBlacklist(entry)
    \/ DropActions

SpecStore == InitEngine /\ [][NextStore]_vars

(***************************************************************************)
(* SpecMonitor: get_system_stats and get_process_stats run over a          *)
(* connection snapshot, one loop iteration per step                        *)
(***************************************************************************)
MaxConns == 2        \* connections of an enumerated snapshot

SnapshotPids == {0, 10}
SnapshotStates == {"Established", "TimeWait", "FinWait1"}

\* get_all_connections: the name is looked up for a pid > 0 only
NameOfPid(pid) ==
    CASE pid = 10 -> <<"a">>
      [] pid = 20 -> <<"a", "b">>
      [] OTHER    -> <<>>

Conn(pid, state) == Connection(pid, state, NameOfPid(pid))

Repeat(c, n) == [i \in 1..n |-> c]

SeqsUpTo(S, n) == UNION {[1..k -> S] : k \in 0..n}

\* Every state alone, every short mix of pids and states, and long
\* snapshots that cross the limits of the health score
Snapshots ==
    SeqsUpTo({Conn(p, st) : p \in SnapshotPids, st \in SnapshotStates},
             MaxConns)
    \cup {<<Conn(10, st)>> : st \in TcpState}
    \cup { Repeat(Conn(10, "Established"), 5)
             \o Repeat(Conn(10, "TimeWait"), 600),
           Repeat(Conn(10, "TimeWait"), 101)
             \o Repeat(Conn(0, "CloseWait"), 51)
             \o Repeat(Conn(10, "Closing"), 2),
           Repeat(Conn(20, "CloseWait"), 201)
             \o Repeat(Conn(10, "Listen"), 201)
             \o Repeat(Conn(0, "Unknown"), 3) }

\* What get_current_config() can report: sysctl values on macOS; the
\* registry value and no dynamic_port_start on Windows
MaxUserPortValues ==
    {None, Some(1000), Some(1024), Some(1025), Some(5000), Some(65535)}
DynamicPortStartValues == {None, Some(1025), Some(49152)}

CurrentConfigs ==
    [dynamic_port_start :
        IF platform = "macos" THEN DynamicPortStartValues ELSE {None},
     max_user_port : MaxUserPortValues]

\* get_top_processes and get_problematic_processes begin with
\* get_system_stats()?
ListCallers == {"get_top_processes", "get_problematic_processes"}
SystemStatsCallers == {"get_system_stats"} \cup ListCallers

\* threshold of get_problematic_processes
Thresholds == {0, 4}

\* get_problematic_processes: the filter
Problematic(by_process, threshold) ==
    SelectSeq(by_process,
              LAMBDA p : \/ p.time_wait > threshold
                         \/ p.close_wait > threshold \div 4)

\* limit of get_top_processes
Limits == {0, 1, 2, 5}


InitMonitor ==
    /\ platform \in {"macos", "windows"}
    /\ overflow_checks \in BOOLEAN
    /\ pc = "idle"
    /\ op = None
    /\ connections = <<>>
    /\ idx = 0
    /\ by_state = <<>>
    /\ by_process_map = <<>>
    /\ config = None
    /\ wrapped = FALSE
    /\ proc_stats = None
    /\ sys_stats = None
    /\ top_processes = None
    /\ stats = DefaultProcessTcpStats
    /\ EngineIdle
    /\ ScoreIdle
    /\ BackendIdle

\* get_system_stats, up to the loop: get_all_connections()? succeeded
CallGetSystemStats(conns) ==
    /\ pc = "idle"
    /\ op' = Some([name |-> "get_system_stats", pid |-> 0])
    /\ connections' = conns
    /\ idx' = 1
    /\ by_state' = <<>>
    /\ by_process_map' = <<>>
    /\ pc' = "loop"
    /\ UNCHANGED <<platform, overflow_checks, config, wrapped, proc_stats,
                   sys_stats, stats, engine_vars, score_vars, top_processes,
                   backend_vars, other_vars>>

\* get_top_processes(limit): get_system_stats()? runs first
CallGetTopProcesses(conns, limit) ==
    /\ pc = "idle"
    /\ op' = Some([name |-> "get_top_processes", pid |-> 0, limit |-> limit])
    /\ connections' = conns
    /\ idx' = 1
    /\ by_state' = <<>>
    /\ by_process_map' = <<>>
    /\ pc' = "loop"
    /\ UNCHANGED <<platform, overflow_checks, config, wrapped, proc_stats,
                   sys_stats, stats, engine_vars, score_vars, top_processes,
                   backend_vars, other_vars>>

\* get_problematic_processes(threshold): get_system_stats()? runs first
CallGetProblematicProcesses(conns, threshold) ==
    /\ pc = "idle"
    /\ op' = Some([name |-> "get_problematic_processes", pid |-> 0,
                   threshold |-> threshold])
    /\ connections' = conns
    /\ idx' = 1
    /\ by_state' = <<>>
    /\ by_process_map' = <<>>
    /\ pc' = "loop"
    /\ UNCHANGED <<platform, overflow_checks, config, wrapped, proc_stats,
                   sys_stats, stats, engine_vars, score_vars, top_processes,
                   backend_vars, other_vars>>

\* get_process_stats, up to the loop: the connections of `pid`, the name
\* of the first one or else a lookup (which may come back empty)
CallGetProcessStats(conns, pid, looked_up) ==
    /\ pc = "idle"
    /\ op' = Some([name |-> "get_process_stats", pid |-> pid])
    /\ connections' = SelectSeq(conns, LAMBDA c : c.pid = pid)
    /\ proc_stats' = Some(
          [DefaultProcessTcpStats EXCEPT
              !.pid = pid,
              !.process_name = IF connections' = <<>> THEN looked_up
                               ELSE connections'[1].process_name,
              !.total_connections = Len(connections')])
    /\ idx' = 1
    /\ pc' = "loop"
    /\ UNCHANGED <<platform, overflow_checks, by_state, by_process_map,
                   config, wrapped, sys_stats, stats, engine_vars,
                   score_vars, top_processes, backend_vars, other_vars>>

\* get_all_connections() failed: the error is returned by `?`
CallFails(name, pid) ==
    /\ pc = "idle"
    /\ op' = Some([name |-> name, pid |-> pid,
                   enumeration |-> Err("SystemError")])
    /\ CASE name = "get_system_stats" ->
              /\ sys_stats' = Some(Unwrap(op').enumeration)
              /\ UNCHANGED <<proc_stats, top_processes>>
         [] name \in ListCallers ->
              /\ sys_stats' = Some(Unwrap(op').enumeration)
              /\ top_processes' = sys_stats'
              /\ UNCHANGED proc_stats
         [] OTHER ->
              /\ proc_stats' = Some(Unwrap(op').enumeration)
              /\ UNCHANGED <<sys_stats, top_processes>>
    /\ pc' = "done"
    /\ UNCHANGED <<platform, overflow_checks, connections, idx, by_state,
                   by_process_map, config, wrapped, stats, engine_vars,
                   score_vars, backend_vars, other_vars>>

\* for conn in &connections { ... }: one iteration
LoopStep ==
    /\ pc = "loop"
    /\ idx <= Len(connections)
    /\ IF Unwrap(op).name \in SystemStatsCallers
         THEN /\ by_state' = BumpState(by_state, connections[idx].state)
              /\ by_process_map' =
                    AccumulateProcess(by_process_map, connections[idx])
              /\ UNCHANGED proc_stats
         ELSE /\ proc_stats' =
                    Some(CountState(Unwrap(proc_stats), connections[idx].state))
              /\ UNCHANGED <<by_state, by_process_map>>
    /\ idx' = idx + 1
    /\ UNCHANGED <<platform, overflow_checks, pc, op, connections, config,
                   wrapped, sys_stats, stats, engine_vars, score_vars,
                   top_processes, backend_vars, other_vars>>

\* A slip: a process without connections reported as not found.
ProcessStatsResult_notFound(s) ==
    IF s.total_connections = 0 THEN Err("ProcessNotFound")
    ELSE Ok(WithHealthScore(s))

\* stats.health_score = calculate_health_score(&stats); Ok(stats)
ProcessStatsResult(s) == Ok(WithHealthScore(s))

\* get_process_stats after the loop
FinishGetProcessStats ==
    /\ pc = "loop"
    /\ idx > Len(connections)
    /\ Unwrap(op).name = "get_process_stats"
    /\ proc_stats' = Some(ProcessStatsResult(Unwrap(proc_stats)))
    /\ pc' = "done"
    /\ UNCHANGED <<platform, overflow_checks, op, connections, idx, by_state,
                   by_process_map, config, wrapped, sys_stats, stats,
                   engine_vars, score_vars, top_processes, backend_vars,
                   other_vars>>

\* get_system_stats after the loop: collect, score, sort, port range
FinishGetSystemStats(values, cfg) ==
    /\ pc = "loop"
    /\ idx > Len(connections)
    /\ Unwrap(op).name \in SystemStatsCallers
    /\ config' = Some(cfg)
    /\ IF TotalPortsOverflows(cfg) /\ overflow_checks
         THEN \* attempt to subtract with overflow: the thread panics
              /\ pc' = "panicked"
              /\ UNCHANGED <<wrapped, sys_stats, top_processes>>
         ELSE /\ pc' = "done"
              /\ wrapped' = TotalPortsOverflows(cfg)
              /\ sys_stats' = Some(Ok(
                    [total_connections |-> Len(connections),
                     by_state |-> by_state,
                     by_process |-> SortByTotalDesc(
                        [i \in 1..Len(values) |-> WithHealthScore(values[i])]),
                     available_ports |->
                        SaturatingSub(TotalPorts(cfg), Len(connections))]))
              /\ top_processes' =
                    CASE Unwrap(op).name = "get_top_processes" ->
                           Some(Ok(Take(Unwrap(sys_stats').value.by_process,
                                        Unwrap(op).limit)))
                      [] Unwrap(op).name = "get_problematic_processes" ->
                           Some(Ok(Problematic(
                                      Unwrap(sys_stats').value.by_process,
                                      Unwrap(op).threshold)))
                      [] OTHER -> top_processes
    /\ UNCHANGED <<platform, overflow_checks, op, connections, idx, by_state,
                   by_process_map, proc_stats, stats, engine_vars,
                   score_vars, backend_vars, other_vars>>

\* The caller has taken the result (or the panic has unwound)
ReturnToCaller ==
    /\ pc \in {"done", "panicked"}
    /\ pc' = "idle"
    /\ op' = None
    /\ connections' = <<>>
    /\ idx' = 0
    /\ by_state' = <<>>
    /\ by_process_map' = <<>>
    /\ config' = None
    /\ wrapped' = FALSE
    /\ proc_stats' = None
    /\ sys_stats' = None
    /\ top_processes' = None
    /\ UNCHANGED <<platform, overflow_checks, stats, engine_vars, score_vars,
                   backend_vars, other_vars>>

NextMonitor ==
    \/ \E conns \in Snapshots : CallGetSystemStats(conns)
    \/ \E conns \in Snapshots, pid \in SnapshotPids \cup {30},
          looked_up \in {<<>>, <<"b">>} :
              CallGetProcessStats(conns, pid, looked_up)
    \/ \E conns \in Snapshots, limit \in Limits :
          CallGetTopProcesses(conns, limit)
    \/ \E conns \in Snapshots, threshold \in Thresholds :
          CallGetProblematicProcesses(conns, threshold)
    \/ \E name \in {"get_process_stats"} \cup SystemStatsCallers :
          CallFails(name, 10)
    \/ LoopStep
    \/ FinishGetProcessStats
    \/ \E values \in ValueOrders(by_process_map), cfg \in CurrentConfigs :
          FinishGetSystemStats(values, cfg)
    \/ ReturnToCaller

SpecMonitor == InitMonitor /\ [][NextMonitor]_vars

(***************************************************************************)
(* tcp_config.rs: TcpSystemConfig, its presets and validate()              *)
(***************************************************************************)
\* TcpSystemConfig::default()
DefaultTcpSystemConfig ==
    [max_user_port |-> None, time_wait_delay |-> None,
     dynamic_port_start |-> None, max_syn_retransmissions |-> None,
     keep_alive_time |-> None, keep_alive_interval |-> None]

high_performance ==
    [max_user_port |-> Some(65534), time_wait_delay |-> Some(30),
     dynamic_port_start |-> Some(10000), max_syn_retransmissions |-> Some(2),
     keep_alive_time |-> Some(60), keep_alive_interval |-> Some(10)]

conservative ==
    [max_user_port |-> Some(49152), time_wait_delay |-> Some(60),
     dynamic_port_start |-> Some(32768), max_syn_retransmissions |-> Some(3),
     keep_alive_time |-> Some(7200), keep_alive_interval |-> Some(75)]

\* Result<()>
Unit == <<>>

\* A slip: dynamic_port_start = max_user_port let through.
validate_startMayEqualMax(cfg) ==
    IF cfg.max_user_port # None
         /\ (Unwrap(cfg.max_user_port) < 1024
               \/ Unwrap(cfg.max_user_port) > 65535)
      THEN Err("InvalidParameter")
    ELSE IF cfg.time_wait_delay # None
              /\ (Unwrap(cfg.time_wait_delay) < 30
                    \/ Unwrap(cfg.time_wait_delay) > 300)
      THEN Err("InvalidParameter")
    ELSE IF cfg.dynamic_port_start # None /\ cfg.max_user_port # None
              /\ Unwrap(cfg.dynamic_port_start) > Unwrap(cfg.max_user_port)
      THEN Err("InvalidParameter")
    ELSE Ok(Unit)

validate(cfg) ==
    IF cfg.max_user_port # None
         /\ (Unwrap(cfg.max_user_port) < 1024
               \/ Unwrap(cfg.max_user_port) > 65535)
      THEN Err("InvalidParameter")
    ELSE IF cfg.time_wait_delay # None
              /\ (Unwrap(cfg.time_wait_delay) < 30
                    \/ Unwrap(cfg.time_wait_delay) > 300)
      THEN Err("InvalidParameter")
    ELSE IF cfg.dynamic_port_start # None /\ cfg.max_user_port # None
              /\ Unwrap(cfg.dynamic_port_start) >= Unwrap(cfg.max_user_port)
      THEN Err("InvalidParameter")
    ELSE Ok(Unit)

(***************************************************************************)
(* platform/macos.rs, platform/windows.rs: apply_config                    *)
(***************************************************************************)
\* One write of apply_config: `if let Some(v) = field { set(name, v)?; }`
WriteOf(field, name, value) ==
    IF field # None THEN <<[name |-> name, value |-> value]>> ELSE <<>>

\* The writes apply_config attempts for cfg, in the order of the code
Writes(cfg) ==
    IF platform = "macos"
      THEN WriteOf(cfg.max_user_port, "net.inet.ip.portrange.last",
                   IF cfg.max_user_port # None
                     THEN Unwrap(cfg.max_user_port) ELSE 0)
        \o WriteOf(cfg.time_wait_delay, "net.inet.tcp.msl",
                   IF cfg.time_wait_delay # None
                     THEN Unwrap(cfg.time_wait_delay) \div 2 ELSE 0)
        \o WriteOf(cfg.dynamic_port_start, "net.inet.ip.portrange.first",
                   IF cfg.dynamic_port_start # None
                     THEN Unwrap(cfg.dynamic_port_start) ELSE 0)
        \o WriteOf(cfg.keep_alive_time, "net.inet.tcp.keepidle",
                   IF cfg.keep_alive_time # None
                     THEN Unwrap(cfg.keep_alive_time) ELSE 0)
        \o WriteOf(cfg.keep_alive_interval, "net.inet.tcp.keepintvl",
                   IF cfg.keep_alive_interval # None
                     THEN Unwrap(cfg.keep_alive_interval) ELSE 0)
      ELSE WriteOf(cfg.max_user_port, "MaxUserPort",
                   IF cfg.max_user_port # None
                     THEN Unwrap(cfg.max_user_port) ELSE 0)
        \o WriteOf(cfg.time_wait_delay, "TcpTimedWaitDelay",
                   IF cfg.time_wait_delay # None
                     THEN Unwrap(cfg.time_wait_delay) ELSE 0)
        \o WriteOf(cfg.max_syn_retransmissions,
                   "TcpMaxConnectRetransmissions",
                   IF cfg.max_syn_retransmissions # None
                     THEN Unwrap(cfg.max_syn_retransmissions) ELSE 0)
        \o WriteOf(cfg.keep_alive_time, "KeepAliveTime",
                   IF cfg.keep_alive_time # None
                     THEN Unwrap(cfg.keep_alive_time) ELSE 0)
        \o WriteOf(cfg.keep_alive_interval, "KeepAliveInterval",
                   IF cfg.keep_alive_interval # None
                     THEN Unwrap(cfg.keep_alive_interval) ELSE 0)

\* The OS parameters after the first n writes of ws went through
RECURSIVE Written(_, _, _)
Written(os, ws, n) ==
    IF n = 0 THEN os
    ELSE LET before == Written(os, ws, n - 1)
         IN  [k \in DOMAIN before \cup {ws[n].name} |->
                 IF k = ws[n].name THEN ws[n].value ELSE before[k]]

\* A slip: the writes made before the configuration is validated.
apply_config_validateLast(os, cfg, elev, fail_at) ==
    LET ws == Writes(cfg)
    IN  IF ~elev /\ ws # <<>>
          THEN [ret |-> Err("PermissionDenied"), os |-> os]
        ELSE IF elev /\ fail_at \in 1..Len(ws)
          THEN [ret |-> Err("SystemError"),
                os |-> Written(os, ws, fail_at - 1)]
        ELSE [ret |-> validate(cfg),
              os |-> IF elev THEN Written(os, ws, Len(ws)) ELSE os]

\* A slip: the writes already made are undone when a later write fails.
apply_config_rollback(os, cfg, elev, fail_at) ==
    LET ws == Writes(cfg)
    IN  IF ~validate(cfg).ok
          THEN [ret |-> validate(cfg), os |-> os]
        ELSE IF ws = <<>>
          THEN [ret |-> Ok(Unit), os |-> os]
        ELSE IF ~elev
          THEN [ret |-> Err("PermissionDenied"), os |-> os]
        ELSE IF fail_at \in 1..Len(ws)
          THEN [ret |-> Err("SystemError"), os |-> os]
        ELSE [ret |-> Ok(Unit), os |-> Written(os, ws, Len(ws))]

\* apply_config(cfg) on OS parameters `os`: validate()?, then one write
\* per set field, each followed by `?`.  Without elevation a write is
\* refused by the OS (PermissionDenied); with it, the write number
\* fail_at (if there is one) fails with SystemError.
apply_config(os, cfg, elev, fail_at) ==
    LET ws == Writes(cfg)
    IN  IF ~validate(cfg).ok
          THEN [ret |-> validate(cfg), os |-> os]
        ELSE IF ws = <<>>
          THEN [ret |-> Ok(Unit), os |-> os]
        ELSE IF ~elev
          THEN [ret |-> Err("PermissionDenied"), os |-> os]
        ELSE IF fail_at \in 1..Len(ws)
          THEN [ret |-> Err("SystemError"),
                os |-> Written(os, ws, fail_at - 1)]
        ELSE [ret |-> Ok(Unit), os |-> Written(os, ws, Len(ws))]

(***************************************************************************)
(* SpecConfig: configurations around the limits of validate() and the two  *)
(* presets are validated and applied, with and without elevation           *)
(***************************************************************************)
ConfigInputs ==
    [max_user_port : {None, Some(1023), Some(1024), Some(65535),
                      Some(65536), Some(70000)},
     time_wait_delay : {None, Some(29), Some(30), Some(300), Some(301)},
     dynamic_port_start : {None, Some(1024), Some(65535)},
     max_syn_retransmissions : {None},
     keep_alive_time : {None},
     keep_alive_interval : {None}]
    \cup {high_performance, conservative,
          [DefaultTcpSystemConfig EXCEPT !.max_syn_retransmissions = Some(2)],
          [DefaultTcpSystemConfig EXCEPT !.dynamic_port_start = Some(70000)]}

InitConfig ==
    /\ platform \in {"macos", "windows"}
    /\ elevated \in BOOLEAN
    /\ os_params = <<>>
    /\ mgr_call = None
    /\ OptimizerIdle
    /\ OtherIdle
    /\ overflow_checks = FALSE
    /\ MonitorAtRest
    /\ stats = DefaultProcessTcpStats
    /\ EngineIdle
    /\ ScoreIdle

CallValidate(cfg) ==
    /\ mgr_call = None
    /\ mgr_call' = Some([name |-> "validate", arg |-> cfg,
                         ret |-> validate(cfg)])
    /\ UNCHANGED <<os_params, elevated, optimizer_vars, engine_vars, stats,
                   score_vars, monitor_vars, other_vars>>

CallApplyConfig(cfg, fail_at) ==
    /\ mgr_call = None
    /\ LET r == apply_config(os_params, cfg, elevated, fail_at)
       IN  /\ mgr_call' = Some([name |-> "apply_config", arg |-> cfg,
                                fail_at |-> fail_at, ret |-> r.ret])
           /\ os_params' = r.os
    /\ UNCHANGED <<elevated, optimizer_vars, engine_vars, stats, score_vars,
                   monitor_vars, other_vars>>

\* The caller is done with what the last call returned
ManagerReturn ==
    /\ mgr_call # None
    /\ mgr_call' = None
    /\ UNCHANGED <<os_params, elevated, optimizer_vars, engine_vars, stats,
                   score_vars, monitor_vars, other_vars>>

\* The writes of cfg the OS may fail: any one write that is reached, or
\* none (0)
FailPoints(cfg) ==
    IF elevated /\ validate(cfg).ok THEN 0..Len(Writes(cfg)) ELSE {0}

NextConfig ==
    \/ \E cfg \in ConfigInputs : CallValidate(cfg)
    \/ \E cfg \in ConfigInputs : \E fail_at \in FailPoints(cfg) :
          CallApplyConfig(cfg, fail_at)
    \/ ManagerReturn

SpecConfig == InitConfig /\ [][NextConfig]_vars

(***************************************************************************)
(* platform/macos.rs, platform/windows.rs: ConnectionOptimizer             *)
(***************************************************************************)
supports_connection_control(plat) == plat = "windows"

\* A slip: the backend without teardown passing the request on to the OS.
close_connection_noPlatformCheck(plat, accepted) ==
    IF accepted THEN Ok(Unit) ELSE Err("SystemError")

\* close_connection(conn); `accepted`: SetTcpEntry returned 0 for it
close_connection(plat, accepted) ==
    IF plat = "macos" THEN Err("UnsupportedPlatform")
    ELSE IF accepted THEN Ok(Unit)
    ELSE Err("SystemError")

\* The connections of pid in `state`, by their position in the snapshot
Matching(conns, pid, state) ==
    {i \in 1..Len(conns) : conns[i].pid = pid /\ conns[i].state = state}

\* close_connections_by_state(pid, state) on the snapshot `snap` (the
\* result of get_process_stats); `accepts`: the connections whose
\* teardown the OS accepts.  Yields the return value and what was closed.
close_connections_by_state(plat, snap, pid, state, accepts) ==
    IF plat = "macos"
      THEN [ret |-> Err("UnsupportedPlatform"), closed |-> {}]
    ELSE IF ~snap.ok
      THEN [ret |-> Err("SystemError"), closed |-> {}]
    ELSE LET done == {i \in Matching(snap.value, pid, state) :
                         close_connection(plat, i \in accepts).ok}
         IN  [ret |-> Ok(Cardinality(done)), closed |-> done]

\* optimize_process(pid, policy)
optimize_process(plat, snap, pid, policy, accepts) ==
    IF plat = "macos"
      THEN [ret |-> Ok([pid |-> pid, process_name |-> policy.process_name,
                        action_type |-> "GracefulShutdown",
                        reason |-> <<"signal only">>,
                        connections_affected |-> 0, success |-> TRUE,
                        error_message |-> None]),
            closed |-> {}]
    ELSE IF ~snap.ok
      THEN [ret |-> Err("SystemError"), closed |-> {}]
    ELSE
      LET time_wait == Cardinality(Matching(snap.value, pid, "TimeWait"))
          close_wait == Cardinality(Matching(snap.value, pid, "CloseWait"))
          tw_hit == policy.time_wait_threshold # None
                      /\ time_wait > Unwrap(policy.time_wait_threshold)
          cw_hit == policy.close_wait_threshold # None
                      /\ close_wait > Unwrap(policy.close_wait_threshold)
          nothing == [ret |-> Ok(0), closed |-> {}]
          r1 == IF tw_hit
                  THEN close_connections_by_state(plat, snap, pid,
                                                  "TimeWait", accepts)
                  ELSE nothing
          r2 == IF cw_hit
                  THEN close_connections_by_state(plat, snap, pid,
                                                  "CloseWait", accepts)
                  ELSE nothing
      IN  [ret |-> Ok([pid |-> pid, process_name |-> policy.process_name,
                       action_type |-> IF tw_hit \/ cw_hit
                                         THEN "CloseConnections" ELSE "None",
                       reason |-> <<tw_hit, cw_hit>>,
                       connections_affected |->
                           r1.ret.value + r2.ret.value,
                       success |-> TRUE, error_message |-> None]),
           closed |-> r1.closed \cup r2.closed]

(***************************************************************************)
(* SpecOptimizer: the optimizer of either backend is called on short       *)
(* snapshots with thresholds of 0 and 1                                    *)
(***************************************************************************)
OptimizerPids == {10, 20}
OptimizerSnapshots ==
    SeqsUpTo({Conn(p, st) : p \in OptimizerPids,
                            st \in {"TimeWait", "CloseWait"}}, MaxConns)

OptimizerPolicies ==
    [process_name : {<<"a">>}, auto_optimize : {TRUE},
     time_wait_threshold : TimeWaitThresholds,
     close_wait_threshold : CloseWaitThresholds,
     max_connections : {None},
     threshold_action : {"Optimize"}]

\* What get_process_stats gives the optimizer: a snapshot or an error
SnapshotResults ==
    {Ok(conns) : conns \in OptimizerSnapshots} \cup {Err("SystemError")}

Accepts(snap) == IF snap.ok THEN SUBSET (1..Len(snap.value)) ELSE {{}}

InitOptimizer ==
    /\ platform \in {"macos", "windows"}
    /\ opt_call = None
    /\ closed = {}
    /\ ManagerIdle
    /\ OtherIdle
    /\ overflow_checks = FALSE
    /\ MonitorAtRest
    /\ stats = DefaultProcessTcpStats
    /\ EngineIdle
    /\ ScoreIdle

CallCloseConnection(conns, i, accepted) ==
    /\ opt_call = None
    /\ LET ret == close_connection(platform, accepted)
       IN  /\ opt_call' = Some([name |-> "close_connection",
                                arg |-> [snap |-> Ok(conns), index |-> i],
                                ret |-> ret])
           /\ closed' = IF ret.ok THEN {i} ELSE {}
    /\ UNCHANGED <<manager_vars, engine_vars, stats, score_vars,
                   monitor_vars, other_vars>>

CallCloseConnectionsByState(snap, pid, state, accepts) ==
    /\ opt_call = None
    /\ LET r == close_connections_by_state(platform, snap, pid, state,
                                           accepts)
       IN  /\ opt_call' = Some([name |-> "close_connections_by_state",
                                arg |-> [snap |-> snap, pid |-> pid,
                                         state |-> state],
                                ret |-> r.ret])
           /\ closed' = r.closed
    /\ UNCHANGED <<manager_vars, engine_vars, stats, score_vars,
                   monitor_vars, other_vars>>

CallOptimizeProcess(snap, pid, policy, accepts) ==
    /\ opt_call = None
    /\ LET r == optimize_process(platform, snap, pid, policy, accepts)
       IN  /\ opt_call' = Some([name |-> "optimize_process",
                                arg |-> [snap |-> snap, pid |-> pid,
                                         policy |-> policy],
                                ret |-> r.ret])
           /\ closed' = r.closed
    /\ UNCHANGED <<manager_vars, engine_vars, stats, score_vars,
                   monitor_vars, other_vars>>

CallSupportsConnectionControl ==
    /\ opt_call = None
    /\ opt_call' = Some([name |-> "supports_connection_control",
                         arg |-> None,
                         ret |-> supports_connection_control(platform)])
    /\ UNCHANGED <<closed, manager_vars, engine_vars, stats, score_vars,
                   monitor_vars, other_vars>>

\* The caller is done with what the last call returned
OptimizerReturn ==
    /\ opt_call # None
    /\ opt_call' = None
    /\ closed' = {}
    /\ UNCHANGED <<manager_vars, engine_vars, stats, score_vars,
                   monitor_vars, other_vars>>

NextOptimizer ==
    \/ \E conns \in OptimizerSnapshots \ {<<>>} :
          \E i \in 1..Len(conns), accepted \in BOOLEAN :
              CallCloseConnection(conns, i, accepted)
    \/ \E snap \in SnapshotResults, pid \in OptimizerPids \cup {30},
          state \in {"TimeWait", "CloseWait", "Established"} :
              \E accepts \in Accepts(snap) :
                  CallCloseConnectionsByState(snap, pid, state, accepts)
    \/ \E snap \in SnapshotResults, pid \in OptimizerPids \cup {30},
          policy \in OptimizerPolicies :
              \E accepts \in Accepts(snap) :
                  CallOptimizeProcess(snap, pid, policy, accepts)
    \/ CallSupportsConnectionControl
    \/ OptimizerReturn

SpecOptimizer == InitOptimizer /\ [][NextOptimizer]_vars


(***************************************************************************)
(* netopt-gui/src/main.rs: the background refresh of the displayed         *)
(* snapshot.  update() runs on the UI thread; each worker thread runs      *)
(* get_system_stats once and sends one message on the channel.             *)
(***************************************************************************)
\* A slip: the flag is left as it was when the worker is started.
refresh_stats_async_flagNotSet(flag) ==
    IF flag
    THEN [is_refreshing |-> TRUE, spawned |-> 0]
    ELSE [is_refreshing |-> FALSE, spawned |-> 1]

\* refresh_stats_async: returns at once while a refresh is running, else
\* sets the flag and spawns one worker.
refresh_stats_async(flag) ==
    IF flag
    THEN [is_refreshing |-> TRUE, spawned |-> 0]
    ELSE [is_refreshing |-> TRUE, spawned |-> 1]

\* The fields of NetOptApp that process_bg_messages assigns.
AppState(refreshing, last, shown) ==
    [is_refreshing |-> refreshing, last_refresh |-> last, stats |-> shown]

\* A slip: a failed refresh blanks the displayed snapshot.
StatsResult_errorClears(app, result, t) ==
    AppState(FALSE, t, IF result.ok THEN Some(result.value) ELSE None)

\* The body of the loop of process_bg_messages for BgMessage::StatsResult.
StatsResult(app, result, t) ==
    AppState(FALSE, t, IF result.ok THEN Some(result.value) ELSE app.stats)

\* process_bg_messages: every message try_recv yields, in order.
RECURSIVE process_bg_messages(_, _, _)
process_bg_messages(app, messages, t) ==
    IF messages = <<>>
    THEN app
    ELSE process_bg_messages(StatsResult(app, Head(messages), t),
                             Tail(messages), t)

\* last_refresh.elapsed() > Duration::from_secs(refresh_interval), with the
\* default refresh_interval.
refresh_interval == 5
Elapsed == now - last_refresh > refresh_interval

(***************************************************************************)
(* SpecGui: the UI thread runs update() frame after frame, in four steps,  *)
(* while time passes and the worker runs concurrently                      *)
(***************************************************************************)
MaxClock == 6
Views == {"Dashboard", "Processes"}
WorkerResults == {Ok("s1"), Ok("s2"), Err("e")}

InitGui ==
    /\ current_view = "Dashboard"
    /\ app_stats = None
    /\ last_refresh = -100
    /\ is_refreshing = FALSE
    /\ auto_refresh \in BOOLEAN
    /\ bg_channel = <<>>
    /\ in_flight = 0
    /\ now = 0
    /\ ui_pc = "process_bg_messages"
    /\ stats = [pid |-> 0, name |-> <<>>, time_wait |-> 0, close_wait |-> 0,
                established |-> 0, total |-> 0]
    /\ ScoreIdle
    /\ EngineIdle
    /\ MonitorAtRest
    /\ platform = "macos"
    /\ overflow_checks \in BOOLEAN
    /\ ManagerIdle
    /\ OptimizerIdle
    /\ ToolIdle

\* A call site of refresh_stats_async that is reached when cond holds.
Trigger(cond) ==
    IF cond
    THEN LET r == refresh_stats_async(is_refreshing) IN
             /\ is_refreshing' = r.is_refreshing
             /\ in_flight' = in_flight + r.spawned
    ELSE UNCHANGED <<is_refreshing, in_flight>>

\* update(): self.process_bg_messages()
ProcessBgMessages ==
    /\ ui_pc = "process_bg_messages"
    /\ LET app == process_bg_messages(
                      AppState(is_refreshing, last_refresh, app_stats),
                      bg_channel, now) IN
           /\ is_refreshing' = app.is_refreshing
           /\ last_refresh' = app.last_refresh
           /\ app_stats' = app.stats
    /\ bg_channel' = <<>>
    /\ ui_pc' = "auto_refresh"
    /\ UNCHANGED <<engine_vars, stats, score_vars, monitor_vars, backend_vars,
                   tool_vars,
                   current_view, auto_refresh, in_flight, now>>

\* update(): the automatic refresh
AutoRefresh ==
    /\ ui_pc = "auto_refresh"
    /\ Trigger(auto_refresh /\ ~is_refreshing /\ Elapsed)
    /\ ui_pc' = "panels"
    /\ UNCHANGED <<engine_vars, stats, score_vars, monitor_vars, backend_vars,
                   tool_vars,
                   current_view, app_stats, last_refresh, auto_refresh,
                   bg_channel, now>>

\* update(): the navigation bar and the status bar.  The user may pick a
\* view, toggle the checkbox, and click the refresh button, which is
\* disabled while a refresh is running.
Panels(view, toggled, clicked) ==
    /\ ui_pc = "panels"
    /\ current_view' = view
    /\ auto_refresh' = IF toggled THEN ~auto_refresh ELSE auto_refresh
    /\ Trigger(clicked /\ ~is_refreshing)
    /\ ui_pc' = "central_panel"
    /\ UNCHANGED <<engine_vars, stats, score_vars, monitor_vars, backend_vars,
                   tool_vars,
                   app_stats, last_refresh, bg_channel, now>>

\* show_dashboard: the first load, or the displayed snapshot is stale
should_refresh == app_stats = None \/ (auto_refresh /\ Elapsed)

\* update(): the central panel; only show_dashboard refreshes
CentralPanel ==
    /\ ui_pc = "central_panel"
    /\ Trigger(current_view = "Dashboard" /\ should_refresh
               /\ ~is_refreshing)
    /\ ui_pc' = "process_bg_messages"
    /\ UNCHANGED <<engine_vars, stats, score_vars, monitor_vars, backend_vars,
                   tool_vars,
                   current_view, app_stats, last_refresh, auto_refresh,
                   bg_channel, now>>

\* The worker: get_system_stats returned, and the result is sent.
WorkerSends(result) ==
    /\ in_flight > 0
    /\ bg_channel' = Append(bg_channel, result)
    /\ in_flight' = in_flight - 1
    /\ UNCHANGED <<engine_vars, stats, score_vars, monitor_vars, backend_vars,
                   tool_vars,
                   current_view, app_stats, last_refresh, is_refreshing,
                   auto_refresh, now, ui_pc>>

\* The worker: get_system_stats panics (the subtraction of the port range
\* in a build with overflow checks), the thread unwinds and sends nothing.
WorkerPanics ==
    /\ in_flight > 0
    /\ overflow_checks
    /\ in_flight' = in_flight - 1
    /\ UNCHANGED <<engine_vars, stats, score_vars, monitor_vars, backend_vars,
                   tool_vars,
                   current_view, app_stats, last_refresh, is_refreshing,
                   auto_refresh, bg_channel, now, ui_pc>>

\* Time passes.
Tick ==
    /\ now < MaxClock
    /\ now' = now + 1
    /\ UNCHANGED <<engine_vars, stats, score_vars, monitor_vars, backend_vars,
                   tool_vars,
                   current_view, app_stats, last_refresh, is_refreshing,
                   auto_refresh, bg_channel, in_flight, ui_pc>>

UiStep ==
    \/ ProcessBgMessages
    \/ AutoRefresh
    \/ \E view \in Views, toggled \in BOOLEAN, clicked \in BOOLEAN :
          Panels(view, toggled, clicked)
    \/ CentralPanel

WorkerStep ==
    \/ \E result \in WorkerResults : WorkerSends(result)
    \/ WorkerPanics

NextGui ==
    \/ UiStep
    \/ WorkerStep
    \/ Tick

SpecGui == InitGui /\ [][NextGui]_vars

\* The UI keeps repainting while a refresh is running (request_repaint_after)
\* and the worker thread is scheduled.
SpecGuiLive == SpecGui /\ WF_vars(UiStep) /\ WF_vars(WorkerStep)


(***************************************************************************)
(* platform/macos.rs, platform/windows.rs: get_all_connections, from the   *)
(* text netstat prints to the connections returned.                        *)
(*                                                                         *)
(* A line is the sequence of its whitespace-separated parts.  A part is    *)
(* described by what the parsers read of it: whether it contains the       *)
(* separator the backend searches for ('.' on macOS, ':' on Windows), the  *)
(* text before the last separator (the whole text without one), and the    *)
(* decimal value of the text after it (of the whole text without one), -1  *)
(* when that text is not a decimal number.                                 *)
(***************************************************************************)
Part(sep, text, num) == [sep |-> sep, text |-> text, num |-> num]
Word(w) == Part(FALSE, w, -1)
Num(n) == Part(FALSE, "", n)
Addr(a, p) == Part(TRUE, a, p)

U16Max == 65535

\* str::parse::<u16>() of the text after the last separator, .ok()
ParsePort(num) == IF num >= 0 /\ num <= U16Max THEN Some(num) ELSE None

\* str::parse::<u32>() of a whole part, .ok(); the pids of the model are
\* far below u32::MAX
ParsePid(part) == IF part.sep \/ part.num < 0 THEN None ELSE Some(part.num)

\* parse_addr_port, the same on both backends up to the separator
parse_addr_port(part) ==
    IF ~part.sep
    THEN None
    ELSE LET port == ParsePort(part.num) IN
             IF port = None
             THEN None
             ELSE Some([addr |-> part.text, port |-> Unwrap(port)])

\* parse_state of either backend
parse_state(plat, s) ==
    CASE s = "LISTEN" /\ plat = "macos"      -> "Listen"
      [] s = "LISTENING" /\ plat = "windows" -> "Listen"
      [] s = "ESTABLISHED"                   -> "Established"
      [] s = "TIME_WAIT"                     -> "TimeWait"
      [] s = "CLOSE_WAIT"                    -> "CloseWait"
      [] s = "FIN_WAIT_1"                    -> "FinWait1"
      [] s = "FIN_WAIT_2"                    -> "FinWait2"
      [] s = "SYN_SENT"                      -> "SynSent"
      [] s = "SYN_RECEIVED"                  -> "SynReceived"
      [] s = "CLOSING"                       -> "Closing"
      [] s = "LAST_ACK"                      -> "LastAck"
      [] s = "CLOSED"                        -> "Closed"
      [] OTHER                               -> "Unknown"

\* lib.rs: TcpConnection
TcpConnection(local, remote, state, pid, name) ==
    [local_addr |-> local.addr, local_port |-> local.port,
     remote_addr |-> remote.addr, remote_port |-> remote.port,
     state |-> state, pid |-> pid, process_name |-> name]

\* MacOsTcpMonitor::parse_netstat_line: parts[3], parts[4], parts[5] and
\* parts[8], counted from 0 in the source
parse_netstat_line_macos(parts) ==
    IF Len(parts) < 9
    THEN None
    ELSE LET local == parse_addr_port(parts[4])
             remote == parse_addr_port(parts[5])
             pid == ParsePid(parts[9])
         IN  IF local = None \/ remote = None
             THEN None
             ELSE Some(TcpConnection(Unwrap(local), Unwrap(remote),
                                     parse_state("macos", parts[6].text),
                                     IF pid = None THEN 0 ELSE Unwrap(pid),
                                     <<>>))

\* WindowsTcpMonitor::parse_netstat_line: parts[1] to parts[4]
parse_netstat_line_windows(parts) ==
    IF Len(parts) < 5
    THEN None
    ELSE LET local == parse_addr_port(parts[2])
             remote == parse_addr_port(parts[3])
             pid == ParsePid(parts[5])
         IN  IF local = None \/ remote = None \/ pid = None
             THEN None
             ELSE Some(TcpConnection(Unwrap(local), Unwrap(remote),
                                     parse_state("windows", parts[4].text),
                                     Unwrap(pid), <<>>))

parse_netstat_line(plat, parts) ==
    IF plat = "macos"
    THEN parse_netstat_line_macos(parts)
    ELSE parse_netstat_line_windows(parts)

\* stdout.lines().skip(2) on macOS, skip(4) on Windows
Skipped(plat) == IF plat = "macos" THEN 2 ELSE 4
Skip(lines, n) ==
    IF Len(lines) <= n THEN <<>> ELSE SubSeq(lines, n + 1, Len(lines))

\* A slip: the loop gives up at the first line that does not parse.
RECURSIVE ParseLines_stopAtBadLine(_, _)
ParseLines_stopAtBadLine(plat, lines) ==
    IF lines = <<>>
    THEN <<>>
    ELSE LET conn == parse_netstat_line(plat, Head(lines)) IN
             IF conn = None
             THEN <<>>
             ELSE conn \o ParseLines_stopAtBadLine(plat, Tail(lines))

\* The loop of parse_netstat: push what parse_netstat_line returns as Some
RECURSIVE ParseLines(_, _)
ParseLines(plat, lines) ==
    IF lines = <<>>
    THEN <<>>
    ELSE parse_netstat_line(plat, Head(lines))
             \o ParseLines(plat, Tail(lines))

\* MacOsTcpMonitor::get_process_name: `ps -p pid -o comm=`, the empty
\* string when ps cannot be run or prints nothing
get_process_name(pid, running) ==
    IF pid \in running THEN NameOfPid(pid) ELSE <<>>

\* WindowsTcpMonitor::get_process_names_batch: first the cache
CacheLookup(cache, pids) ==
    [result |-> [p \in pids \cap DOMAIN cache |-> cache[p]],
     missing_pids |-> pids \ DOMAIN cache]

\* WindowsTcpMonitor::get_process_names_batch: what one tasklist run adds
\* to the cache and to the result; tasklist is None when it cannot be run
TasklistUpdate(cache, result, pids, tasklist) ==
    IF tasklist = None
    THEN [cache |-> cache, result |-> result]
    ELSE LET listed == Unwrap(tasklist) IN
         [cache |-> [p \in DOMAIN cache \cup listed |->
                        IF p \in listed THEN NameOfPid(p) ELSE cache[p]],
          result |-> [p \in DOMAIN result \cup (listed \cap pids) |->
                        IF p \in listed THEN NameOfPid(p) ELSE result[p]]]

\* WindowsTcpMonitor::get_process_names_batch, as one call
get_process_names_batch(cache, pids, tasklist) ==
    LET found == CacheLookup(cache, pids) IN
        IF found.missing_pids = {}
        THEN [cache |-> cache, result |-> found.result, spawned |-> 0]
        ELSE LET upd == TasklistUpdate(cache, found.result, pids, tasklist)
             IN  [cache |-> upd.cache, result |-> upd.result, spawned |-> 1]

PidsAboveZero(parsed) ==
    {parsed[i].pid : i \in {j \in DOMAIN parsed :
                                    parsed[j].pid > 0}}

\* get_all_connections of either backend.  raw is None when netstat cannot
\* be run; running are the pids ps and tasklist know; spawned counts the
\* external processes started to resolve names.
get_all_connections(plat, raw, cache, running, tasklist_runs) ==
    IF raw = None
    THEN [ret |-> Err("SystemError"), cache |-> cache, spawned |-> 0]
    ELSE LET parsed == ParseLines(plat, Skip(Unwrap(raw),
                                                  Skipped(plat))) IN
         IF plat = "macos"
         THEN [ret |-> Ok([i \in DOMAIN parsed |->
                       IF parsed[i].pid > 0
                       THEN [parsed[i] EXCEPT !.process_name =
                              get_process_name(parsed[i].pid, running)]
                       ELSE parsed[i]]),
               cache |-> cache,
               spawned |-> Cardinality({i \in DOMAIN parsed :
                                           parsed[i].pid > 0})]
         ELSE LET names == get_process_names_batch(cache,
                               PidsAboveZero(parsed),
                               IF tasklist_runs THEN Some(running)
                               ELSE None) IN
              [ret |-> Ok([i \in DOMAIN parsed |->
                       IF /\ parsed[i].pid > 0
                          /\ parsed[i].pid \in DOMAIN names.result
                       THEN [parsed[i] EXCEPT !.process_name =
                               names.result[parsed[i].pid]]
                       ELSE parsed[i]]),
               cache |-> names.cache,
               spawned |-> names.spawned]

(***************************************************************************)
(* SpecPoll: one monitor of either backend is polled again and again over  *)
(* outputs of netstat that mix good lines and lines that do not parse      *)
(***************************************************************************)
MaxLines == 2

\* The lines netstat prints before the first connection.
Header(plat) ==
    IF plat = "macos"
    THEN << <<Word("Active"), Word("Internet"), Word("connections"),
              Word("(including"), Word("servers)")>>,
            <<Word("Proto"), Word("Recv-Q"), Word("Send-Q"), Word("Local"),
              Word("Address"), Word("Foreign"), Word("Address"),
              Word("(state)"), Word("rhiwat"), Word("shiwat"),
              Word("pid")>> >>
    ELSE << <<>>,
            <<Word("Active"), Word("Connections")>>,
            <<>>,
            <<Word("Proto"), Word("Local"), Word("Address"),
              Word("Foreign"), Word("Address"), Word("State"),
              Word("PID")>> >>

MacLine(local, remote, state, pid) ==
    <<Word("tcp4"), Num(0), Num(0), local, remote, Word(state),
      Num(131072), Num(131072), pid>>

WinLine(local, remote, state, pid) ==
    <<Word("TCP"), local, remote, Word(state), pid>>

Line(plat, local, remote, state, pid) ==
    IF plat = "macos"
    THEN MacLine(local, remote, state, pid)
    ELSE WinLine(local, remote, state, pid)

\* Good lines of two processes, a line of pid 0, a line whose pid column
\* is not a number, a listening socket as macOS prints it (remote "*.*"),
\* a local address without separator, an unknown state, and a short line.
BodyLines(plat) ==
    LET l == Addr("127.0.0.1", 80)
        r == Addr("10.0.0.1", 5000)
    IN  { Line(plat, l, r, "ESTABLISHED", Num(10)),
          Line(plat, l, r, "TIME_WAIT", Num(10)),
          Line(plat, l, r, "CLOSE_WAIT", Num(20)),
          Line(plat, l, r, "ESTABLISHED", Num(0)),
          Line(plat, l, r, "ESTABLISHED", Word("-")),
          Line(plat, Addr("*", 80), Addr("*", -1), "LISTEN", Num(20)),
          Line(plat, Word("localhost"), r, "ESTABLISHED", Num(10)),
          Line(plat, l, r, "BOUND", Num(20)),
          <<Word("tcp4"), Num(0), Num(0), l>> }

PollRaws(plat) ==
    {None, Some(<<>>)} \cup
    {Some(Header(plat) \o body) : body \in SeqsUpTo(BodyLines(plat), MaxLines)}

PollPids == {10, 20}

InitPoll ==
    /\ platform \in {"macos", "windows"}
    /\ overflow_checks = FALSE
    /\ MonitorAtRest
    /\ stats = [pid |-> 0, name |-> <<>>, time_wait |-> 0, close_wait |-> 0,
                established |-> 0, total |-> 0]
    /\ ScoreIdle
    /\ EngineIdle
    /\ ManagerIdle
    /\ OptimizerIdle
    /\ OtherIdle

CallGetAllConnections(raw, running, tasklist_runs) ==
    /\ poll_call = None
    /\ LET r == get_all_connections(platform, raw, process_cache, running,
                                    tasklist_runs) IN
           /\ poll_call' = Some([raw |-> raw, running |-> running,
                                 ret |-> r.ret, spawned |-> r.spawned])
           /\ process_cache' = r.cache
    /\ UNCHANGED <<engine_vars, stats, score_vars, monitor_vars, backend_vars,
                   gui_vars, cache_lock, thr_pc, thr_pids, thr_result,
                   load_call>>

PollReturn ==
    /\ poll_call # None
    /\ poll_call' = None
    /\ UNCHANGED <<engine_vars, stats, score_vars, monitor_vars, backend_vars,
                   gui_vars, resolver_vars, load_call>>

NextPoll ==
    \/ \E raw \in PollRaws(platform), running \in SUBSET PollPids,
          tasklist_runs \in BOOLEAN :
              CallGetAllConnections(raw, running, tasklist_runs)
    \/ PollReturn

SpecPoll == InitPoll /\ [][NextPoll]_vars


(***************************************************************************)
(* SpecCache: two threads resolve names through one WindowsTcpMonitor;     *)
(* get_process_names_batch runs step by step, the Mutex guard `cache`      *)
(* living from its first statement to its return                           *)
(***************************************************************************)
InitCache ==
    /\ platform = "windows"
    /\ overflow_checks = FALSE
    /\ MonitorAtRest
    /\ stats = [pid |-> 0, name |-> <<>>, time_wait |-> 0, close_wait |-> 0,
                established |-> 0, total |-> 0]
    /\ ScoreIdle
    /\ EngineIdle
    /\ ManagerIdle
    /\ OptimizerIdle
    /\ OtherIdle

\* parse_netstat calls get_process_names_batch(&unique_pids)
EnterBatch(t, pids) ==
    /\ thr_pc[t] = "idle"
    /\ thr_pids' = [thr_pids EXCEPT ![t] = pids]
    /\ thr_result' = [thr_result EXCEPT ![t] = [p \in {} |-> <<>>]]
    /\ thr_pc' = [thr_pc EXCEPT ![t] = "lock"]
    /\ UNCHANGED <<engine_vars, stats, score_vars, monitor_vars, backend_vars,
                   gui_vars, process_cache, cache_lock, poll_call, load_call>>

\* let mut cache = self.process_cache.lock().unwrap();
LockCache(t) ==
    /\ thr_pc[t] = "lock"
    /\ cache_lock = None
    /\ cache_lock' = Some(t)
    /\ thr_pc' = [thr_pc EXCEPT ![t] = "lookup"]
    /\ UNCHANGED <<engine_vars, stats, score_vars, monitor_vars, backend_vars,
                   gui_vars, process_cache, thr_pids, thr_result, poll_call,
                   load_call>>

\* The loop over pids, and the test of missing_pids
LookupCache(t) ==
    /\ thr_pc[t] = "lookup"
    /\ LET found == CacheLookup(process_cache, thr_pids[t]) IN
           /\ thr_result' = [thr_result EXCEPT ![t] = found.result]
           /\ thr_pc' = [thr_pc EXCEPT ![t] =
                             IF found.missing_pids = {} THEN "return"
                             ELSE "tasklist"]
    /\ UNCHANGED <<engine_vars, stats, score_vars, monitor_vars, backend_vars,
                   gui_vars, process_cache, cache_lock, thr_pids, poll_call,
                   load_call>>

\* Command::new("tasklist")...output() returns, and its lines are read
TasklistReturns(t, tasklist) ==
    /\ thr_pc[t] = "tasklist"
    /\ LET upd == TasklistUpdate(process_cache, thr_result[t], thr_pids[t],
                                 tasklist) IN
           /\ process_cache' = upd.cache
           /\ thr_result' = [thr_result EXCEPT ![t] = upd.result]
    /\ thr_pc' = [thr_pc EXCEPT ![t] = "return"]
    /\ UNCHANGED <<engine_vars, stats, score_vars, monitor_vars, backend_vars,
                   gui_vars, cache_lock, thr_pids, poll_call, load_call>>

\* `result` is returned and the guard is dropped
ReturnBatch(t) ==
    /\ thr_pc[t] = "return"
    /\ cache_lock' = IF cache_lock = Some(t) THEN None ELSE cache_lock
    /\ thr_pc' = [thr_pc EXCEPT ![t] = "idle"]
    /\ UNCHANGED <<engine_vars, stats, score_vars, monitor_vars, backend_vars,
                   gui_vars, process_cache, thr_pids, thr_result, poll_call,
                   load_call>>

TasklistOutputs == {None} \cup {Some(listed) : listed \in SUBSET {10, 20, 30}}

NextCache ==
    \E t \in Threads :
        \/ \E pids \in SUBSET PollPids : EnterBatch(t, pids)
        \/ LockCache(t)
        \/ LookupCache(t)
        \/ \E tasklist \in TasklistOutputs : TasklistReturns(t, tasklist)
        \/ ReturnBatch(t)

SpecCache == InitCache /\ [][NextCache]_vars


(***************************************************************************)
(* config.rs, policy.rs: loading a persisted policy store.  AppPolicy and  *)
(* PolicyManager derive Deserialize without any serde attribute: a field   *)
(* of type Option<T> that is absent reads as None, any other absent field  *)
(* is the error `missing field`.  A JSON object is modelled as a function  *)
(* from the field names it holds to their values.                          *)
(***************************************************************************)
AppPolicyFields ==
    {"process_name", "auto_optimize", "time_wait_threshold",
     "close_wait_threshold", "max_connections", "threshold_action"}
AppPolicyOptionFields ==
    {"time_wait_threshold", "close_wait_threshold", "max_connections"}
PolicyManagerFields == {"policies", "default_policy", "whitelist", "blacklist"}

\* serde_json::from_str::<AppPolicy>
from_str_AppPolicy(doc) ==
    IF \E f \in AppPolicyFields \ AppPolicyOptionFields : f \notin DOMAIN doc
    THEN Err("missing field")
    ELSE Ok([f \in AppPolicyFields |->
                IF f \in DOMAIN doc THEN doc[f] ELSE None])

\* serde_json::from_str::<PolicyManager>
from_str_PolicyManager(doc) ==
    IF \E f \in PolicyManagerFields : f \notin DOMAIN doc
    THEN Err("missing field")
    ELSE IF \/ ~from_str_AppPolicy(doc["default_policy"]).ok
            \/ \E n \in DOMAIN doc["policies"] :
                   ~from_str_AppPolicy(doc["policies"][n]).ok
    THEN Err("missing field")
    ELSE Ok([policies |-> [n \in DOMAIN doc["policies"] |->
                 from_str_AppPolicy(doc["policies"][n]).value],
             default_policy |->
                 from_str_AppPolicy(doc["default_policy"]).value,
             whitelist |-> doc["whitelist"],
             blacklist |-> doc["blacklist"]])

\* AppConfig::import_policies: a document that does not deserialize is a
\* SystemError and the store is left as it was
import_policies(store, doc) ==
    LET parsed == from_str_PolicyManager(doc) IN
        IF parsed.ok
        THEN [ret |-> Ok(Unit), policy_manager |-> parsed.value]
        ELSE [ret |-> Err("SystemError"), policy_manager |-> store]

(***************************************************************************)
(* SpecLoad: stores are imported from documents that lack any of the       *)
(* fields of the store and up to one field of a policy                     *)
(***************************************************************************)
Restrict(f, S) == [x \in S |-> f[x]]

\* A policy with no field at its default.
StoredPolicy ==
    [process_name |-> <<"a">>, auto_optimize |-> FALSE,
     time_wait_threshold |-> Some(1), close_wait_threshold |-> Some(2),
     max_connections |-> Some(3), threshold_action |-> "Optimize"]

PolicyDocs ==
    {Restrict(StoredPolicy, AppPolicyFields \ {f}) : f \in AppPolicyFields}
        \cup {StoredPolicy, Restrict(StoredPolicy, {"process_name"})}

StoredManagers ==
    {[policies |-> ps, default_policy |-> d, whitelist |-> << <<"a">> >>,
      blacklist |-> << <<"b">> >>] :
        ps \in {<<>>} \cup {[n \in {<<"a">>} |-> p] : p \in PolicyDocs},
        d \in PolicyDocs}

ManagerDocs ==
    {Restrict(mgr, S) : mgr \in StoredManagers, S \in SUBSET PolicyManagerFields}

InitLoad ==
    /\ InitEngine
    /\ load_call = None

CallImportPolicies(doc) ==
    /\ load_call = None
    /\ LET r == import_policies(PolicyManager, doc) IN
           /\ load_call' = Some([doc |-> doc, ret |-> r.ret])
           /\ policies' = r.policy_manager.policies
           /\ default_policy' = r.policy_manager.default_policy
           /\ whitelist' = r.policy_manager.whitelist
           /\ blacklist' = r.policy_manager.blacklist
    /\ UNCHANGED <<actions, call, stats, score_vars, monitor_vars,
                   backend_vars, gui_vars, resolver_vars, poll_call>>

LoadReturn ==
    /\ load_call # None
    /\ load_call' = None
    /\ UNCHANGED <<engine_vars, stats, score_vars, monitor_vars, backend_vars,
                   gui_vars, resolver_vars, poll_call>>

NextLoad ==
    \/ \E doc \in ManagerDocs : CallImportPolicies(doc)
    \/ LoadReturn

SpecLoad == InitLoad /\ [][NextLoad]_vars

(***************************************************************************)
(* Claims on scoring and anomaly detection (checked under SpecScore)       *)
(***************************************************************************)
\* The penalties as the specification's table lists them
Penalty(s) ==
      (IF s.time_wait > 100 THEN 20 ELSE 0)
    + (IF s.time_wait > 500 THEN 30 ELSE 0)
    + (IF s.close_wait > 50 THEN 25 ELSE 0)
    + (IF s.close_wait > 200 THEN 25 ELSE 0)
    + (IF s.total_connections > 1000 THEN 10 ELSE 0)
    + (IF s.total_connections > 5000 THEN 15 ELSE 0)

StatsAre(tw, cw, tot) ==
    /\ stats.time_wait = tw
    /\ stats.close_wait = cw
    /\ stats.total_connections = tot

C6_ClampReached ==
    /\ health_score = Some(0)
    /\ Penalty(stats) = 125

OfType(an, type) == SelectSeq(an, LAMBDA a : a.anomaly_type = type)

\* C7: detect_anomalies returns at most one anomaly per axis, TIME_WAIT
\* first: Critical TooManyTimeWait iff time_wait > 500, else Warning iff
\* time_wait > 100, else none; then Critical TooManyCloseWait iff
\* close_wait > 50.  Nothing else is emitted and every anomaly carries the
\* pid and process name of the statistics.
C7_DetectAnomalies ==
    anomalies # None =>
        LET an == Unwrap(anomalies)
            tw == OfType(an, "TooManyTimeWait")
            cw == OfType(an, "TooManyCloseWait")
        IN  /\ Len(tw) <= 1
            /\ Len(cw) <= 1
            /\ an = tw \o cw
            /\ (Len(tw) = 1 /\ tw[1].severity = "Critical")
                 <=> stats.time_wait > 500
            /\ (Len(tw) = 1 /\ tw[1].severity = "Warning")
                 <=> (stats.time_wait > 100 /\ stats.time_wait <= 500)
            /\ Len(tw) = 0 <=> stats.time_wait <= 100
            /\ Len(cw) = 1 <=> stats.close_wait > 50
            /\ \A i \in 1..Len(cw) : cw[i].severity = "Critical"
            /\ stats.close_wait = 51 => Len(cw) = 1
            /\ stats.close_wait \in {49, 50} => Len(cw) = 0
            /\ \A i \in 1..Len(an) :
                  /\ an[i].pid = stats.pid
                  /\ an[i].process_name = stats.process_name

C7_Witness ==
    /\ anomalies # None
    /\ stats.close_wait = 51
    /\ stats.time_wait = 101
    /\ stats.pid = 10
    /\ Len(Unwrap(anomalies)) = 2
    /\ Unwrap(anomalies)[1].severity = "Warning"
    /\ Unwrap(anomalies)[2].anomaly_type = "TooManyCloseWait"

(***************************************************************************)
(* Claims on the decision engine (checked under SpecEngine)                *)
(***************************************************************************)
\* The statistics analysed last and the list returned for them
Analysed == actions # None
Returned == Unwrap(actions)

\* Some whitelist entry occurs in the analysed process name
NameWhitelisted ==
    \E k \in 1..Len(whitelist) :
        \E i \in 0..(Len(stats.process_name) - Len(whitelist[k])) :
            SubSeq(stats.process_name, i + 1, i + Len(whitelist[k]))
                = whitelist[k]

\* The stored policy of the analysed name, else the default policy
Resolved ==
    IF stats.process_name \in DOMAIN policies
      THEN policies[stats.process_name]
      ELSE default_policy

TimeWaitExceeded ==
    /\ Resolved.time_wait_threshold # None
    /\ stats.time_wait > Unwrap(Resolved.time_wait_threshold)

CloseWaitExceeded ==
    /\ Resolved.close_wait_threshold # None
    /\ stats.close_wait > Unwrap(Resolved.close_wait_threshold)

Decides == Analysed /\ ~NameWhitelisted /\ Resolved.auto_optimize

\* C1: a whitelisted process name gets the empty list, whatever the
\* statistics and the stored policy.
C1_WhitelistedNoActions ==
    (Analysed /\ NameWhitelisted) => Returned = <<>>

C1_Witness ==
    /\ Analysed /\ NameWhitelisted
    /\ stats.process_name \in DOMAIN policies
    /\ stats.process_name \notin {whitelist[k] : k \in 1..Len(whitelist)}
    /\ Resolved.auto_optimize
    /\ Resolved.threshold_action = "Optimize"
    /\ TimeWaitExceeded /\ CloseWaitExceeded
    /\ Returned = <<>>

\* C2: when the resolved policy (stored for the name, else the default) has
\* auto_optimize = false the list is empty, thresholds exceeded or not.
C2_AutoOptimizeOffNoActions ==
    (Analysed /\ ~Resolved.auto_optimize) => Returned = <<>>

C2_Witness ==
    /\ Analysed /\ ~NameWhitelisted
    /\ stats.process_name \in DOMAIN policies
    /\ ~Resolved.auto_optimize
    /\ default_policy.auto_optimize
    /\ TimeWaitExceeded /\ CloseWaitExceeded
    /\ Returned = <<>>

IsTimeWaitAction(a) == a.action_type \in {"CloseTimeWait", "None"}

C3_WitnessRestart ==
    /\ Decides /\ TimeWaitExceeded
    /\ Resolved.threshold_action = "RestartProcess"
    /\ Returned[1].action_type = "None"

MaxConnectionsAlternatives == {None, Some(0), Some(MaxCount)}

MaxConnectionsVariants ==
    {[PolicyManager EXCEPT
        !.default_policy = [@ EXCEPT !.max_connections = d],
        !.policies = [n \in DOMAIN policies |->
                        [policies[n] EXCEPT !.max_connections = f[n]]]] :
       d \in MaxConnectionsAlternatives,
       f \in [DOMAIN policies -> MaxConnectionsAlternatives]}

Running(name) == op # None /\ Unwrap(op).name = name

ProcessStatsReturned ==
    Running("get_process_stats") /\ pc = "done" /\ Unwrap(proc_stats).ok

SystemStatsReturned ==
    Running("get_system_stats") /\ pc = "done" /\ Unwrap(sys_stats).ok

ByProcess == Unwrap(sys_stats).value.by_process

SumOfClasses(p) ==
    p.established + p.time_wait + p.close_wait + p.listen + p.other

\* C8: every ProcessStats returned by process_stats(pid) or listed in
\* system_stats().by_process has total_connections = established +
\* time_wait + close_wait + listen + other.
C8_TotalIsSumOfClasses ==
    /\ ProcessStatsReturned =>
          Unwrap(proc_stats).value.total_connections
              = SumOfClasses(Unwrap(proc_stats).value)
    /\ SystemStatsReturned =>
          \A i \in 1..Len(ByProcess) :
              ByProcess[i].total_connections = SumOfClasses(ByProcess[i])

C8_Witness ==
    /\ ProcessStatsReturned
    /\ Unwrap(proc_stats).value.pid = 10
    /\ Unwrap(proc_stats).value.time_wait = 101
    /\ Unwrap(proc_stats).value.other = 2
    /\ Unwrap(proc_stats).value.total_connections = 103

\* The system_stats side of C8 is exercised with all five classes non-zero
\* across the entries.
C8_WitnessSystem ==
    /\ SystemStatsReturned
    /\ Len(ByProcess) = 3
    /\ \E i \in 1..3 : ByProcess[i].other = 3
    /\ \E i \in 1..3 : ByProcess[i].listen = 201
    /\ \E i \in 1..3 : ByProcess[i].close_wait = 201

PidsOf(conns) == {conns[j].pid : j \in 1..Len(conns)}

CountOf(conns, pid, states) ==
    Cardinality({j \in 1..Len(conns) :
                    conns[j].pid = pid /\ conns[j].state \in states})

\* C9: system_stats().by_process holds exactly one entry per distinct pid
\* of the snapshot (pid 0 included); the five counts of an entry are the
\* numbers of that pid's connections in the respective class, and its
\* health_score is the score of those final counts.
C9_ByProcessPerPid ==
    SystemStatsReturned =>
        /\ Len(ByProcess) = Cardinality(PidsOf(connections))
        /\ {ByProcess[i].pid : i \in 1..Len(ByProcess)} = PidsOf(connections)
        /\ \A i \in 1..Len(ByProcess) :
              LET e == ByProcess[i]
              IN  /\ e.established
                       = CountOf(connections, e.pid, {"Established"})
                  /\ e.time_wait = CountOf(connections, e.pid, {"TimeWait"})
                  /\ e.close_wait = CountOf(connections, e.pid, {"CloseWait"})
                  /\ e.listen = CountOf(connections, e.pid, {"Listen"})
                  /\ e.other = CountOf(connections, e.pid,
                        TcpState \ {"Established", "TimeWait", "CloseWait",
                                    "Listen"})
                  /\ e.total_connections = CountOf(connections, e.pid, TcpState)
                  /\ e.health_score = Max(0, 100 - Penalty(e))

\* 5 Established + 600 TimeWait of pid 10: total 605, score 50
C9_Witness ==
    /\ SystemStatsReturned
    /\ Len(connections) = 605
    /\ Len(ByProcess) = 1
    /\ ByProcess[1].pid = 10
    /\ ByProcess[1].established = 5
    /\ ByProcess[1].time_wait = 600
    /\ ByProcess[1].total_connections = 605
    /\ ByProcess[1].health_score = 50

\* Connections of pid 0 are grouped in one entry.
C9_WitnessPidZero ==
    /\ SystemStatsReturned
    /\ \E i \in 1..Len(ByProcess) :
          ByProcess[i].pid = 0 /\ ByProcess[i].total_connections = 51

SystemStatsEnded ==
    Running("get_system_stats") /\ pc \in {"done", "panicked"} /\ config # None

\* C10: for every pair (dynamic_port_start, max_user_port) the config
\* manager can report, system_stats() completes without underflow or
\* failure and available_ports = max(0, (end - start + 1) - len(connections)).
C10_AvailablePorts ==
    SystemStatsEnded =>
        /\ pc = "done"
        /\ ~wrapped
        /\ Unwrap(sys_stats).ok
        /\ Unwrap(sys_stats).value.available_ports =
              USize(Max(0, (PortEnd(Unwrap(config)) - PortStart(Unwrap(config))
                              + 1) - Len(connections)))

\* What does hold: the formula of C10 whenever end >= start.
C10_HoldsWhenRangeOrdered ==
    (SystemStatsEnded
       /\ PortEnd(Unwrap(config)) >= PortStart(Unwrap(config))) =>
        /\ pc = "done"
        /\ ~wrapped
        /\ Unwrap(sys_stats).ok
        /\ Unwrap(sys_stats).value.available_ports =
              USize(Max(0, (PortEnd(Unwrap(config)) - PortStart(Unwrap(config))
                              + 1) - Len(connections)))

\* The saturation at 0 is exercised: more connections than ports.
C10_SaturationReached ==
    /\ SystemStatsReturned
    /\ PortEnd(Unwrap(config)) >= PortStart(Unwrap(config))
    /\ PortEnd(Unwrap(config)) - PortStart(Unwrap(config)) + 1
          < Len(connections)
    /\ Unwrap(sys_stats).value.available_ports = USize(0)

\* How C10 fails when end < start: a build with overflow checks panics at
\* the subtraction ...
C10_NeverPanics ==
    ~(Running("get_system_stats") /\ pc = "panicked")

\* ... and a build without them returns the wrapped difference.
C10_NeverWrapped ==
    ~(SystemStatsReturned /\ wrapped
        /\ Unwrap(sys_stats).value.available_ports.wrap)

TopProcessesReturned ==
    Running("get_top_processes") /\ pc = "done" /\ Unwrap(top_processes).ok

Top == Unwrap(top_processes).value

\* C11: top_processes(n) returns min(n, number of distinct pids) entries
\* of the snapshot, in descending order of total_connections, and no
\* process left out has more connections than a returned one.
C11_TopProcesses ==
    TopProcessesReturned =>
        /\ Len(Top) = Min(Unwrap(op).limit, Cardinality(PidsOf(connections)))
        /\ \A i \in 1..Len(Top) :
              /\ Top[i].pid \in PidsOf(connections)
              /\ Top[i].total_connections
                    = CountOf(connections, Top[i].pid, TcpState)
              /\ \A j \in 1..Len(Top) : i # j => Top[i].pid # Top[j].pid
              /\ \A j \in 1..Len(Top) :
                    i < j =>
                      Top[i].total_connections >= Top[j].total_connections
        /\ \A pid \in PidsOf(connections) \ {Top[i].pid : i \in 1..Len(Top)} :
              \A i \in 1..Len(Top) :
                  CountOf(connections, pid, TcpState)
                      <= Top[i].total_connections

\* Three processes with 201, 201 and 3 connections, limit 2: the process
\* with 3 connections is left out.
C11_Witness ==
    /\ TopProcessesReturned
    /\ Unwrap(op).limit = 2
    /\ Cardinality(PidsOf(connections)) = 3
    /\ Len(Top) = 2
    /\ Top[1].total_connections = 201
    /\ Top[2].total_connections = 201

\* Fewer processes than the limit: all of them are returned.
C11_WitnessFewer ==
    /\ TopProcessesReturned
    /\ Unwrap(op).limit = 5
    /\ Len(Top) = 2
    /\ Top[1].total_connections = 103
    /\ Top[2].total_connections = 51

(***************************************************************************)
(* Claims on the policy store (checked under SpecStore)                    *)
(***************************************************************************)
Called(name) == call # None /\ Unwrap(call).name = name

\* C12: get_policy(name) never fails; it returns the policy stored under
\* exactly that name if there is one and otherwise the current
\* default_policy, whatever set_policy/remove_policy calls and changes of
\* the default came before.
C12_GetPolicy ==
    Called("get_policy") =>
        LET n == Unwrap(call).arg
            ret == Unwrap(call).ret
        IN  /\ ret \in StorePolicies(StoreKeys \cup {<<>>})
                          \cup {DefaultAppPolicy}
            /\ (\E k \in DOMAIN policies : k = n) => ret = policies[n]
            /\ (\A k \in DOMAIN policies : k # n) => ret = default_policy

\* "a" has no policy while "ab" has one, and the default was replaced:
\* get_policy("a") is the new default.
C12_Witness ==
    /\ Called("get_policy")
    /\ Unwrap(call).arg = <<"a">>
    /\ DOMAIN policies = {<<"a", "b">>}
    /\ default_policy # DefaultAppPolicy
    /\ Unwrap(call).ret = default_policy
    /\ Unwrap(call).ret # policies[<<"a", "b">>]

\* A stored policy is returned while the default differs from it.
C12_WitnessStored ==
    /\ Called("get_policy")
    /\ Unwrap(call).arg \in DOMAIN policies
    /\ Unwrap(call).ret.process_name = Unwrap(call).arg
    /\ Unwrap(call).ret.threshold_action # default_policy.threshold_action

StoredUnderOwnName ==
    \A n \in DOMAIN policies : policies[n].process_name = n

SetPolicyStep ==
    (call = None /\ call' # None /\ Unwrap(call').name = "set_policy") =>
        LET policy == Unwrap(call').arg
        IN  /\ DOMAIN policies' = DOMAIN policies \cup {policy.process_name}
            /\ policies'[policy.process_name] = policy
            /\ \A n \in DOMAIN policies :
                  n # policy.process_name => policies'[n] = policies[n]
            /\ UNCHANGED <<default_policy, whitelist, blacklist>>

RemovePolicyStep ==
    (call = None /\ call' # None /\ Unwrap(call').name = "remove_policy") =>
        LET n == Unwrap(call').arg
        IN  /\ DOMAIN policies' = DOMAIN policies \ {n}
            /\ \A k \in DOMAIN policies' : policies'[k] = policies[k]
            /\ Unwrap(call').ret =
                  IF n \in DOMAIN policies THEN Some(policies[n]) ELSE None
            /\ UNCHANGED <<default_policy, whitelist, blacklist>>

OtherStoreStep ==
    (call' = None \/ Unwrap(call').name \notin {"set_policy", "remove_policy"})
        => UNCHANGED policies

\* C13: the store holds at most one policy per process_name; set_policy
\* replaces the whole policy of that name and touches nothing else;
\* remove_policy returns what it removed (or none) and touches nothing
\* else; nothing but these two calls changes a stored policy.
C13_SetRemovePolicy ==
    /\ []StoredUnderOwnName
    /\ [][SetPolicyStep /\ RemovePolicyStep /\ OtherStoreStep]_vars

\* remove_policy returned the removed policy and the other entry stays
C13_Witness ==
    /\ Called("remove_policy")
    /\ Unwrap(call).arg = <<"a">>
    /\ Unwrap(call).ret # None
    /\ Unwrap(Unwrap(call).ret).time_wait_threshold = Some(1)
    /\ DOMAIN policies = {<<"a", "b">>}

\* remove_policy of a name without a policy returns none
C13_WitnessNone ==
    /\ Called("remove_policy")
    /\ Unwrap(call).ret = None
    /\ policies # <<>>

\* set_policy with an unset threshold while the other key is stored
C13_WitnessSet ==
    /\ Called("set_policy")
    /\ Unwrap(call).arg.time_wait_threshold = None
    /\ DOMAIN policies = StoreKeys
    /\ policies[Unwrap(call).arg.process_name] = Unwrap(call).arg

\* `w` occurs in `name` at some offset, character by character
Occurs(w, name) ==
    \E off \in 0..Len(name) :
        /\ off + Len(w) <= Len(name)
        /\ \A k \in 1..Len(w) : name[off + k] = w[k]

\* C14: is_whitelisted(name) (is_blacklisted(name)) is true iff some entry
\* of the whitelist (blacklist) occurs in name as a contiguous,
\* case-sensitive, unanchored substring; false with an empty list;
\* whatever policies are stored.
C14_ListMatching ==
    /\ Called("is_whitelisted") =>
          Unwrap(call).ret
             = (\E k \in 1..Len(whitelist) :
                   Occurs(whitelist[k], Unwrap(call).arg))
    /\ Called("is_blacklisted") =>
          Unwrap(call).ret
             = (\E k \in 1..Len(blacklist) :
                   Occurs(blacklist[k], Unwrap(call).arg))
    /\ (Called("is_whitelisted") /\ whitelist = <<>>) => ~Unwrap(call).ret
    /\ (Called("is_blacklisted") /\ blacklist = <<>>) => ~Unwrap(call).ret

\* An entry in the middle of the name matches, with a policy stored
C14_Witness ==
    /\ Called("is_blacklisted")
    /\ Unwrap(call).arg = <<"b", "a", "b">>
    /\ blacklist = << <<"a">> >>
    /\ Unwrap(call).ret
    /\ policies # <<>>

\* An entry that differs in case only does not match
C14_WitnessCase ==
    /\ Called("is_whitelisted")
    /\ Unwrap(call).arg = <<"A">>
    /\ whitelist = << <<"a">> >>
    /\ ~Unwrap(call).ret

(***************************************************************************)
(* Claims on the system configuration (checked under SpecConfig)           *)
(***************************************************************************)
ManagerCalled(name) == mgr_call # None /\ Unwrap(mgr_call).name = name

InRange(o, lo, hi) == o = None \/ (Unwrap(o) >= lo /\ Unwrap(o) <= hi)

\* The three constraints of a TcpSystemConfig
Valid(cfg) ==
    /\ InRange(cfg.max_user_port, 1024, 65535)
    /\ InRange(cfg.time_wait_delay, 30, 300)
    /\ \/ cfg.dynamic_port_start = None
       \/ cfg.max_user_port = None
       \/ Unwrap(cfg.dynamic_port_start) < Unwrap(cfg.max_user_port)

\* C15: validate() returns Ok iff max_user_port is unset or in
\* [1024,65535], time_wait_delay is unset or in [30,300], and
\* dynamic_port_start < max_user_port when both are set; otherwise it
\* returns InvalidParameter.  It rejects max_user_port = 70000 and
\* dynamic_port_start >= max_user_port and accepts both presets.
C15_Validate ==
    ManagerCalled("validate") =>
        LET cfg == Unwrap(mgr_call).arg
            ret == Unwrap(mgr_call).ret
        IN  /\ ret.ok <=> Valid(cfg)
            /\ ~ret.ok => ret.err = Some("InvalidParameter")
            /\ cfg.max_user_port = Some(70000) => ~ret.ok
            /\ (cfg.dynamic_port_start # None /\ cfg.max_user_port # None
                  /\ Unwrap(cfg.dynamic_port_start)
                        >= Unwrap(cfg.max_user_port)) => ~ret.ok
            /\ cfg \in {high_performance, conservative} => ret.ok

\* dynamic_port_start = max_user_port, both in range: rejected
C15_Witness ==
    /\ ManagerCalled("validate")
    /\ Unwrap(mgr_call).arg.max_user_port = Some(65535)
    /\ Unwrap(mgr_call).arg.dynamic_port_start = Some(65535)
    /\ Unwrap(mgr_call).arg.time_wait_delay = Some(300)
    /\ Unwrap(mgr_call).ret = Err("InvalidParameter")

C15_WitnessPreset ==
    /\ ManagerCalled("validate")
    /\ Unwrap(mgr_call).arg = high_performance
    /\ Unwrap(mgr_call).ret = Ok(Unit)

ApplyConfigStep ==
    mgr_call = None /\ mgr_call' # None
        /\ Unwrap(mgr_call').name = "apply_config"

\* C16: apply_config on a config that fails validate() returns
\* InvalidParameter and writes nothing: every OS parameter keeps its
\* value, on both backends, elevated or not.
C16_InvalidConfigNotApplied ==
    [][(ApplyConfigStep /\ ~Valid(Unwrap(mgr_call').arg)) =>
          /\ Unwrap(mgr_call').ret = Err("InvalidParameter")
          /\ os_params' = os_params]_vars

\* An elevated apply_config of an invalid config, after an earlier one
\* had written parameters
C16_Witness ==
    /\ ManagerCalled("apply_config")
    /\ elevated
    /\ ~Valid(Unwrap(mgr_call).arg)
    /\ Unwrap(mgr_call).arg.max_user_port = Some(1024)
    /\ Unwrap(mgr_call).arg.dynamic_port_start = Some(1024)
    /\ Unwrap(mgr_call).ret = Err("InvalidParameter")
    /\ os_params # <<>>

\* C17: apply_config without elevation returns PermissionDenied for every
\* config that passes validation, a config with every field unset
\* included, and changes no OS parameter.
C17_PermissionDenied ==
    [][(ApplyConfigStep /\ ~elevated /\ Valid(Unwrap(mgr_call').arg)) =>
          /\ Unwrap(mgr_call').ret = Err("PermissionDenied")
          /\ os_params' = os_params]_vars

\* How C17 fails: without elevation, a valid config of which the backend
\* writes no field is answered with Ok.
C17_NeverOkWithoutElevation ==
    ~(/\ ManagerCalled("apply_config")
      /\ ~elevated
      /\ Unwrap(mgr_call).ret = Ok(Unit))

\* What does hold: without elevation nothing is written, and the answer
\* is PermissionDenied whenever the backend has a field to write.
C17_HoldsWhenSomethingToWrite ==
    [][(ApplyConfigStep /\ ~elevated /\ Valid(Unwrap(mgr_call').arg)) =>
          /\ os_params' = os_params
          /\ Writes(Unwrap(mgr_call').arg) # <<>> =>
                Unwrap(mgr_call').ret = Err("PermissionDenied")]_vars

(***************************************************************************)
(* Claims on connection control (checked under SpecOptimizer)              *)
(***************************************************************************)
OptimizerCalled(name) == opt_call # None /\ Unwrap(opt_call).name = name

\* C18: the macOS backend returns UnsupportedPlatform from
\* close_connection for every connection and reports
\* supports_connection_control() = false; on a backend that reports
\* false, close_connection and close_connections_by_state never report a
\* connection as closed (and none is closed).
C18_NoTeardownIsReported ==
    /\ (platform = "macos" /\ OptimizerCalled("close_connection")) =>
          Unwrap(opt_call).ret = Err("UnsupportedPlatform")
    /\ (platform = "macos"
          /\ OptimizerCalled("supports_connection_control")) =>
          Unwrap(opt_call).ret = FALSE
    /\ ~supports_connection_control(platform) =>
          /\ OptimizerCalled("close_connection") =>
                ~Unwrap(opt_call).ret.ok /\ closed = {}
          /\ OptimizerCalled("close_connections_by_state") =>
                /\ Unwrap(opt_call).ret.ok => Unwrap(opt_call).ret.value = 0
                /\ closed = {}

\* close_connection on macOS for a CloseWait connection
C18_Witness ==
    /\ platform = "macos"
    /\ OptimizerCalled("close_connection")
    /\ Unwrap(opt_call).arg.snap.value[Unwrap(opt_call).arg.index].state
          = "CloseWait"
    /\ Unwrap(opt_call).ret = Err("UnsupportedPlatform")

\* close_connections_by_state on macOS for a pid with two such connections
C18_WitnessByState ==
    /\ platform = "macos"
    /\ OptimizerCalled("close_connections_by_state")
    /\ Unwrap(opt_call).arg.snap.ok
    /\ Cardinality(Matching(Unwrap(opt_call).arg.snap.value,
                            Unwrap(opt_call).arg.pid,
                            Unwrap(opt_call).arg.state)) = 2
    /\ ~Unwrap(opt_call).ret.ok

\* The backend with teardown does report closed connections
C18_WitnessWindowsCloses ==
    /\ platform = "windows"
    /\ OptimizerCalled("close_connections_by_state")
    /\ Unwrap(opt_call).ret = Ok(2)
    /\ Cardinality(closed) = 2

\* Whether a threshold of the policy is set and exceeded by the process
ThresholdExceeded(arg) ==
    \/ /\ arg.policy.time_wait_threshold # None
       /\ Cardinality(Matching(arg.snap.value, arg.pid, "TimeWait"))
             > Unwrap(arg.policy.time_wait_threshold)
    \/ /\ arg.policy.close_wait_threshold # None
       /\ Cardinality(Matching(arg.snap.value, arg.pid, "CloseWait"))
             > Unwrap(arg.policy.close_wait_threshold)

OptimizeProcessReturned ==
    /\ OptimizerCalled("optimize_process")
    /\ Unwrap(opt_call).arg.snap.ok
    /\ Unwrap(opt_call).ret.ok

\* C19: on every backend optimize_process(pid, policy) decides from the
\* process's statistics and the thresholds: with no threshold set and
\* exceeded it returns a no-op action (type None, connections_affected 0)
\* and closes nothing; it reports a mitigation action only when a
\* threshold is exceeded.
C19_OptimizeProcess ==
    OptimizeProcessReturned =>
        LET arg == Unwrap(opt_call).arg
            action == Unwrap(opt_call).ret.value
        IN  /\ ~ThresholdExceeded(arg) =>
                  /\ action.action_type = "None"
                  /\ action.connections_affected = 0
                  /\ closed = {}
            /\ action.action_type # "None" => ThresholdExceeded(arg)

\* What does hold: C19 on the backend with teardown
C19_HoldsOnWindows ==
    (OptimizeProcessReturned /\ platform = "windows") =>
        LET arg == Unwrap(opt_call).arg
            action == Unwrap(opt_call).ret.value
        IN  /\ ~ThresholdExceeded(arg) =>
                  /\ action.action_type = "None"
                  /\ action.connections_affected = 0
                  /\ closed = {}
            /\ action.action_type # "None" => ThresholdExceeded(arg)
            /\ action.connections_affected = Cardinality(closed)

\* ... and nothing is ever closed on macOS
C19_MacOsClosesNothing ==
    (OptimizerCalled("optimize_process") /\ platform = "macos") =>
        /\ closed = {}
        /\ Unwrap(opt_call).ret.value.connections_affected = 0

\* The Windows backend closes connections when a threshold is exceeded
C19_WindowsMitigates ==
    /\ OptimizeProcessReturned
    /\ platform = "windows"
    /\ Unwrap(opt_call).ret.value.action_type = "CloseConnections"
    /\ Unwrap(opt_call).ret.value.connections_affected = 2

(***************************************************************************)
(* Claims on process_stats (checked under SpecMonitor)                     *)
(***************************************************************************)
\* get_process_stats has ended after reading a snapshot in which the pid
\* owns no connection
ProcessStatsOfIdlePid ==
    /\ Running("get_process_stats")
    /\ pc = "done"
    /\ idx >= 1
    /\ connections = <<>>

\* C20: process_stats(pid) for a pid without a connection in the snapshot
\* succeeds with total_connections and the five counts all 0; no call of
\* process_stats ends in ProcessNotFound.
C20_ZeroStatsForIdlePid ==
    /\ (Running("get_process_stats") /\ pc = "done") =>
          Unwrap(proc_stats).err # Some("ProcessNotFound")
    /\ ProcessStatsOfIdlePid =>
          /\ Unwrap(proc_stats).ok
          /\ Unwrap(proc_stats).value.pid = Unwrap(op).pid
          /\ Unwrap(proc_stats).value.total_connections = 0
          /\ Unwrap(proc_stats).value.established = 0
          /\ Unwrap(proc_stats).value.time_wait = 0
          /\ Unwrap(proc_stats).value.close_wait = 0
          /\ Unwrap(proc_stats).value.listen = 0
          /\ Unwrap(proc_stats).value.other = 0

\* A pid no connection belongs to, whose name lookup came back empty
C20_Witness ==
    /\ ProcessStatsOfIdlePid
    /\ Unwrap(op).pid = 30
    /\ Unwrap(proc_stats).ok
    /\ Unwrap(proc_stats).value.process_name = <<>>
    /\ Unwrap(proc_stats).value.total_connections = 0
    /\ Unwrap(proc_stats).value.health_score = 100


(***************************************************************************)
(* Claims on the background refresh of the GUI (checked under SpecGui and  *)
(* SpecGuiLive)                                                            *)
(***************************************************************************)
\* A step of the UI thread, and a step that starts a worker.
UiMoves == ui_pc' # ui_pc
WorkerStarted == in_flight' > in_flight

\* C21: at most one acquisition is in flight at any time.  A worker is
\* started only in a step taken while is_refreshing is false, and one at a
\* time; no step taken while is_refreshing is true starts a worker, whatever
\* trigger it carries; and the workers in flight together with the
\* undelivered messages of the channel are never more than one.
C21_OneAcquisitionInFlight ==
    /\ [](in_flight + Len(bg_channel) <= 1)
    /\ [][/\ WorkerStarted =>
                /\ ~is_refreshing
                /\ is_refreshing'
                /\ in_flight' = in_flight + 1
          /\ is_refreshing => ~WorkerStarted]_vars

\* A worker is in flight while the frame is about to run the auto-refresh
\* check and the dashboard check, and both find their condition true.
C21_Witness ==
    /\ ui_pc = "auto_refresh"
    /\ is_refreshing
    /\ in_flight = 1
    /\ auto_refresh /\ Elapsed
    /\ current_view = "Dashboard" /\ should_refresh

\* C28: every refresh that is started eventually ends with is_refreshing
\* false, whatever the worker does, provided the UI keeps running frames.
C28_RefreshEnds == is_refreshing ~> ~is_refreshing

\* What the code does ensure: a refresh whose worker sends its message ends.
C28_EndsWhenWorkerSends ==
    (is_refreshing /\ ~overflow_checks) ~> ~is_refreshing

\* C29: process_bg_messages on an error result leaves the displayed
\* snapshot as it was, clears is_refreshing and sets last_refresh to the
\* current time; on a successful result it does the same and displays the
\* whole new snapshot; and no other step changes the displayed snapshot.
C29_ErrorKeepsSnapshot ==
    [][/\ (UiMoves /\ ui_pc = "process_bg_messages" /\ bg_channel # <<>>) =>
              LET result == Head(bg_channel) IN
                  /\ ~is_refreshing'
                  /\ last_refresh' = now
                  /\ ~result.ok => app_stats' = app_stats
                  /\ result.ok => app_stats' = Some(result.value)
       /\ app_stats' # app_stats =>
              /\ UiMoves /\ ui_pc = "process_bg_messages"
              /\ bg_channel # <<>>
              /\ Head(bg_channel).ok
              /\ app_stats' = Some(Head(bg_channel).value)]_vars

\* An error result is about to be received while a snapshot of an earlier
\* refresh is displayed.
C29_Witness ==
    /\ ui_pc = "process_bg_messages"
    /\ bg_channel = <<Err("e")>>
    /\ app_stats = Some("s1")
    /\ is_refreshing
    /\ last_refresh < now


(***************************************************************************)
(* Claims on get_all_connections (checked under SpecPoll)                  *)
(***************************************************************************)
\* A poll of netstat output has returned.
Polled == poll_call # None /\ Unwrap(poll_call).raw # None
PolledBody == Skip(Unwrap(Unwrap(poll_call).raw), Skipped(platform))
PolledRet == Unwrap(poll_call).ret

\* The columns of a line, by backend, counted from 1.
LocalColumn == IF platform = "macos" THEN 4 ELSE 2
RemoteColumn == LocalColumn + 1
StateColumn == LocalColumn + 2
PidColumn == IF platform = "macos" THEN 9 ELSE 5

\* A part that reads as address, separator, port.
IsAddress(part) == part.sep /\ part.num \in 0..U16Max

\* A line that shows a connection: every column is there and both
\* addresses read as address and port.
ShowsConnection(parts) ==
    /\ Len(parts) >= PidColumn
    /\ IsAddress(parts[LocalColumn])
    /\ IsAddress(parts[RemoteColumn])

\* The pid column is a number.
PidKnown(parts) == ~parts[PidColumn].sep /\ parts[PidColumn].num >= 0

\* C23: one poll starts at most one name lookup per distinct non-zero pid
\* of the snapshot it returns.
C23_OneLookupPerPid ==
    (Polled /\ PolledRet.ok) =>
        Unwrap(poll_call).spawned
            <= Cardinality(PidsAboveZero(PolledRet.value))

\* On Windows the lookups of a poll are one tasklist run at most.
C23_HoldsOnWindows ==
    (Polled /\ PolledRet.ok /\ platform = "windows") =>
        /\ Unwrap(poll_call).spawned <= 1
        /\ Unwrap(poll_call).spawned
               <= Cardinality(PidsAboveZero(PolledRet.value))

\* The lines the backend accepts: on macOS those that show a connection,
\* on Windows those that show a connection and a numeric pid.
Accepted(parts) ==
    /\ ShowsConnection(parts)
    /\ platform = "windows" => PidKnown(parts)

\* C24: whatever netstat printed, the call succeeds and returns one
\* connection per accepted line, in the order of the lines, with every field
\* taken from that line; the other lines leave no trace, and without any
\* accepted line the result is the empty list.
C24_BadLinesSkipped ==
    Polled =>
        LET lines == SelectSeq(PolledBody, Accepted) IN
            /\ PolledRet.ok
            /\ Len(PolledRet.value) = Len(lines)
            /\ \A i \in DOMAIN lines :
                  LET c == PolledRet.value[i] IN
                      /\ c.local_addr = lines[i][LocalColumn].text
                      /\ c.local_port = lines[i][LocalColumn].num
                      /\ c.remote_addr = lines[i][RemoteColumn].text
                      /\ c.remote_port = lines[i][RemoteColumn].num
                      /\ c.state = parse_state(platform,
                                               lines[i][StateColumn].text)
                      /\ c.pid = IF PidKnown(lines[i])
                                 THEN lines[i][PidColumn].num ELSE 0

\* A line that does not parse comes before a good one, and the good one
\* alone is returned.
C24_Witness ==
    /\ Polled
    /\ Len(PolledBody) = 2
    /\ ~Accepted(PolledBody[1])
    /\ Accepted(PolledBody[2])
    /\ PolledRet.ok
    /\ Len(PolledRet.value) = 1

NoPid(c) == c.pid = 0
ShowsConnectionOfNoPid(parts) ==
    /\ ShowsConnection(parts)
    /\ ~PidKnown(parts) \/ parts[PidColumn].num = 0

\* C25: every line that shows a connection whose pid is not known is
\* returned as a connection of pid 0, and a connection whose name lookup
\* fails is returned with the empty name, the call succeeding.
C25_UnknownPidKept ==
    Polled =>
        /\ PolledRet.ok
        /\ Len(SelectSeq(PolledRet.value, NoPid))
               = Len(SelectSeq(PolledBody, ShowsConnectionOfNoPid))
        /\ \A i \in DOMAIN PolledRet.value :
              LET c == PolledRet.value[i] IN
                  (c.pid > 0 /\ c.pid \notin Unwrap(poll_call).running
                             /\ c.pid \notin DOMAIN process_cache)
                      => c.process_name = <<>>

\* macOS does as C25 says.
C25_HoldsOnMacOs == platform = "macos" => C25_UnknownPidKept

\* Windows keeps the connection whose name lookup fails, with the empty name.
C25_NameLookupHoldsOnWindows ==
    (Polled /\ platform = "windows") =>
        /\ PolledRet.ok
        /\ \A i \in DOMAIN PolledRet.value :
              LET c == PolledRet.value[i] IN
                  (c.pid > 0 /\ c.pid \notin DOMAIN process_cache)
                      => c.process_name = <<>>


(***************************************************************************)
(* Claims on the shared name cache (checked under SpecCache)               *)
(***************************************************************************)
\* C22: a thread that is inside an external process call (tasklist) does
\* not hold the lock of the cache.
C22_LockNotHeldAcrossTasklist ==
    \A t \in Threads : thr_pc[t] = "tasklist" => cache_lock # Some(t)

\* What the Mutex does ensure: only its holder is past lock().
C22_MutualExclusion ==
    \A t \in Threads :
        thr_pc[t] \in {"lookup", "tasklist", "return"} => cache_lock = Some(t)

\* A second thread waits for the lock while the holder runs tasklist.
C22_ReaderBlockedByTasklist ==
    /\ thr_pc["poll"] = "tasklist"
    /\ thr_pc["reader"] = "lock"
    /\ cache_lock = Some("poll")


(***************************************************************************)
(* Claims on loading the policy store (checked under SpecLoad)             *)
(***************************************************************************)
Loaded == load_call # None
LoadedDoc == Unwrap(load_call).doc

\* The value a field of the store has by default (PolicyManager::new).
DefaultOfStore(f) ==
    CASE f = "policies"       -> <<>>
      [] f = "default_policy" -> DefaultAppPolicy
      [] f = "whitelist"      -> <<>>
      [] f = "blacklist"      -> <<>>

\* A policy read from a document: what the document holds, and the default
\* of the field for what it lacks.
PolicyWithDefaults(doc, policy) ==
    \A f \in AppPolicyFields :
        policy[f] = IF f \in DOMAIN doc THEN doc[f] ELSE DefaultAppPolicy[f]

\* C26: loading a store succeeds whatever fields the document lacks, and
\* every field it lacks, of the store or of a policy in it, has its default.
C26_MissingFieldsDefault ==
    Loaded =>
        /\ Unwrap(load_call).ret.ok
        /\ \A f \in PolicyManagerFields \ DOMAIN LoadedDoc :
              PolicyManager[f] = DefaultOfStore(f)
        /\ "whitelist" \in DOMAIN LoadedDoc =>
              whitelist = LoadedDoc["whitelist"]
        /\ "blacklist" \in DOMAIN LoadedDoc =>
              blacklist = LoadedDoc["blacklist"]
        /\ "default_policy" \in DOMAIN LoadedDoc =>
              PolicyWithDefaults(LoadedDoc["default_policy"], default_policy)
        /\ "policies" \in DOMAIN LoadedDoc =>
              /\ DOMAIN policies = DOMAIN LoadedDoc["policies"]
              /\ \A n \in DOMAIN policies :
                    PolicyWithDefaults(LoadedDoc["policies"][n], policies[n])

\* What the code does: a document loads exactly when it lacks no field
\* other than the Option fields of a policy, and those read as None.
C26_OnlyOptionFieldsMayBeAbsent ==
    Loaded =>
        LET complete(doc) ==
                AppPolicyFields \ AppPolicyOptionFields \subseteq DOMAIN doc
            read(doc, policy) ==
                \A f \in AppPolicyFields :
                    policy[f] = IF f \in DOMAIN doc THEN doc[f] ELSE None
        IN  Unwrap(load_call).ret.ok <=>
               /\ DOMAIN LoadedDoc = PolicyManagerFields
               /\ complete(LoadedDoc["default_policy"])
               /\ \A n \in DOMAIN LoadedDoc["policies"] :
                     complete(LoadedDoc["policies"][n])
               /\ read(LoadedDoc["default_policy"], default_policy)
               /\ whitelist = LoadedDoc["whitelist"]


(***************************************************************************)
(* Claims on the errors of the monitor (checked under SpecMonitor)         *)
(***************************************************************************)
\* The value the running operation has returned.
MonitorReturned ==
    CASE Unwrap(op).name = "get_process_stats" -> Unwrap(proc_stats)
      [] Unwrap(op).name = "get_system_stats"  -> Unwrap(sys_stats)
      [] OTHER                                 -> Unwrap(top_processes)

\* get_all_connections() returned an error to the running operation.
EnumerationFailed == op # None /\ "enumeration" \in DOMAIN Unwrap(op)

\* The running operation asked the config manager for the port range, and
\* on macOS a sysctl read of the range failed (sysctl_get gave None).
ConfigReadFailed ==
    /\ platform = "macos"
    /\ config # None
    /\ \/ Unwrap(config).dynamic_port_start = None
       \/ Unwrap(config).max_user_port = None

\* C27: an operation of the monitor that met an error of the enumeration
\* or of the config manager returns that error, and never a value computed
\* from defaults.
C27_ErrorsReturnedUnchanged ==
    (op # None /\ pc = "done") =>
        /\ EnumerationFailed => MonitorReturned = Unwrap(op).enumeration
        /\ ConfigReadFailed => ~MonitorReturned.ok

\* What the code does ensure: the error of the enumeration is returned as
\* it is by each of the four operations.
C27_EnumerationErrorsReturned ==
    (op # None /\ pc = "done" /\ EnumerationFailed) =>
        MonitorReturned = Unwrap(op).enumeration


(***************************************************************************)
(* Claims on the order of the writes of apply_config (checked under        *)
(* SpecConfig)                                                             *)
(***************************************************************************)
\* The parameters of each backend in the order apply_config takes them.
ParameterOrder ==
    IF platform = "macos"
    THEN << [field |-> "max_user_port",
             name |-> "net.inet.ip.portrange.last"],
            [field |-> "time_wait_delay", name |-> "net.inet.tcp.msl"],
            [field |-> "dynamic_port_start",
             name |-> "net.inet.ip.portrange.first"],
            [field |-> "keep_alive_time", name |-> "net.inet.tcp.keepidle"],
            [field |-> "keep_alive_interval",
             name |-> "net.inet.tcp.keepintvl"] >>
    ELSE << [field |-> "max_user_port", name |-> "MaxUserPort"],
            [field |-> "time_wait_delay", name |-> "TcpTimedWaitDelay"],
            [field |-> "max_syn_retransmissions",
             name |-> "TcpMaxConnectRetransmissions"],
            [field |-> "keep_alive_time", name |-> "KeepAliveTime"],
            [field |-> "keep_alive_interval",
             name |-> "KeepAliveInterval"] >>

\* The parameters cfg sets, in that order, and the value each is given.
SetParameters(cfg) ==
    SelectSeq(ParameterOrder, LAMBDA p : cfg[p.field] # None)
ValueGiven(cfg, p) ==
    IF p.name = "net.inet.tcp.msl"
    THEN Unwrap(cfg[p.field]) \div 2
    ELSE Unwrap(cfg[p.field])

\* The parameter has after the step the value it had before it.
Untouched(name) ==
    /\ name \in DOMAIN os_params' <=> name \in DOMAIN os_params
    /\ name \in DOMAIN os_params => os_params'[name] = os_params[name]

\* C30: apply_config on a valid config takes the set parameters in the
\* fixed order of the backend and returns at the first write that fails:
\* the parameters before it hold their new values, that one and those
\* after it are untouched, and the error is the one of that write
\* (PermissionDenied for the first write of a process that is not
\* elevated, SystemError for a write the OS fails); when no write fails,
\* every set parameter holds its new value and the call returns Ok.
C30_StopsAtFirstFailingWrite ==
    [][(ApplyConfigStep /\ Valid(Unwrap(mgr_call').arg)) =>
          LET cfg == Unwrap(mgr_call').arg
              ps == SetParameters(cfg)
              failing == IF ps = <<>> THEN 0
                         ELSE IF ~elevated THEN 1
                         ELSE Unwrap(mgr_call').fail_at
              done == IF failing = 0 THEN Len(ps) ELSE failing - 1
          IN  /\ \A i \in 1..done :
                    /\ ps[i].name \in DOMAIN os_params'
                    /\ os_params'[ps[i].name] = ValueGiven(cfg, ps[i])
              /\ \A i \in (done + 1)..Len(ps) : Untouched(ps[i].name)
              /\ \A name \in (DOMAIN os_params \cup DOMAIN os_params')
                        \ {ps[i].name : i \in 1..Len(ps)} : Untouched(name)
              /\ Unwrap(mgr_call').ret =
                    IF failing = 0 THEN Ok(Unit)
                    ELSE IF ~elevated THEN Err("PermissionDenied")
                    ELSE Err("SystemError")]_vars

\* The second of three writes has failed on a system on which nothing was
\* written before: the first parameter is written, the other two are not.
C30_Witness ==
    /\ ManagerCalled("apply_config")
    /\ Unwrap(mgr_call).ret = Err("SystemError")
    /\ Unwrap(mgr_call).fail_at = 2
    /\ Len(SetParameters(Unwrap(mgr_call).arg)) = 3
    /\ DOMAIN os_params = {ParameterOrder[1].name}

====
